---------------------------- MODULE Spec2Model ----------------------------
(***************************************************************************)
(* Curling simulator: physics world, rules, game controller and headless   *)
(* driver.                                                                 *)
(*                                                                         *)
(* Numbers are fixed-point integers (the source uses IEEE doubles):        *)
(*   positions            1 unit = 1e-5 m                                  *)
(*   velocities           1 unit = 1e-6 m/s                                *)
(*   accelerations        1 unit = 1e-6 m/s^2                              *)
(*   spin (omega)         1 unit = 1e-6 rad/s,  angle 1 unit = 1e-6 rad    *)
(*   elapsed time         1 unit = 1/600 s                                 *)
(*   direction cosines, sin/cos, ratios   1 unit = 1e-4                    *)
(*   mu0, muMax, curlCoeff, kSpin         1 unit = 1e-6                    *)
(*   sweep factors, restitution, tangential friction  1 unit = 1e-3        *)
(* Products are split so that no intermediate value leaves 32 bits.        *)
(***************************************************************************)
EXTENDS Integers, Sequences, FiniteSets, TLC

\* ------------------------------------------------------------------------
\* Program constants
\* ------------------------------------------------------------------------
SHEET_WIDTH == 472440
TEE_Z == 1737360
HOG_Z == 1097280
BACK_LINE_Z == 1920240
HACK_Z == 2103120
STONE_RADIUS == 14500
STONE_MASS == 1996
HALF_WIDTH == SHEET_WIDTH \div 2

PHYSICS_DT == 5
GRAVITY == 981
SETTLE_VEL_THRESHOLD == 3000
SETTLE_OMEGA_THRESHOLD == 10000
COLLISION_RESTITUTION == 850
COLLISION_TANGENTIAL_FRICTION == 300
CONTACT_DIST == STONE_RADIUS * 2
POSITIONAL_SLOP == 100
POSITIONAL_CORRECTION_FACTOR == 800
ACCUMULATOR_CAP == 120

STONES_PER_TEAM == 8
ENDS_PER_GAME == 2
SCORE_DISPLAY_DURATION == 1800
HEADLESS_STONES_PER_END == 16
HEADLESS_ENDS_PER_GAME == 2

DEFAULT_ICE_PARAMS ==
  [mu0 |-> 8000, muMax |-> 60000, curlCoeff |-> 28000, kSpin |-> 80,
   sweepMuFactor |-> 780, sweepCurlFactor |-> 450]

Team == {"red", "yellow"}

\* ------------------------------------------------------------------------
\* Fixed-point arithmetic standing for the source's double arithmetic
\* ------------------------------------------------------------------------
Abs(x) == IF x < 0 THEN -x ELSE x
Sign(x) == IF x > 0 THEN 1 ELSE IF x < 0 THEN -1 ELSE 0
Min(a, b) == IF a < b THEN a ELSE b
Max(a, b) == IF a > b THEN a ELSE b

\* a / b rounded to nearest, symmetric about zero (b > 0)
RDiv(a, b) == Sign(a) * ((Abs(a) + b \div 2) \div b)
\* a / b truncated toward zero (b > 0)
TDiv(a, b) == Sign(a) * (Abs(a) \div b)
\* a * n / d for |n| <= 46340, 0 < d <= 46340
Scale(a, n, d) ==
  Sign(a) * Sign(n) * ((Abs(a) \div d) * Abs(n) + RDiv((Abs(a) % d) * Abs(n), d))

RECURSIVE IsqrtIter(_, _)
IsqrtIter(n, x) ==
  LET y == (x + n \div x) \div 2
  IN IF y >= x THEN x ELSE IsqrtIter(n, y)
\* floor(sqrt(n)) by Newton iteration from above
Isqrt(n) ==
  IF n = 0 THEN 0
  ELSE IsqrtIter(n, IF n < 256 THEN 16
                    ELSE IF n < 65536 THEN 256
                    ELSE IF n < 16777216 THEN 4096 ELSE 46341)

\* Math.sqrt(x*x + z*z)
vecLen(x, z) ==
  IF x = 0 THEN Abs(z)
  ELSE IF z = 0 THEN Abs(x)
  ELSE LET m == Max(Abs(x), Abs(z))
           k == m \div 32768 + 1
       IN k * Isqrt(TDiv(x, k) * TDiv(x, k) + TDiv(z, k) * TDiv(z, k))

\* v / len as a direction cosine in units of 1e-4 (|v| <= len, len > 0)
Ratio(v, len) ==
  LET k == len \div 200000 + 1
  IN RDiv(TDiv(v, k) * 10000, len \div k)

\* sign of a.b for two velocity vectors
DotSign(ax, az, bx, bz) ==
  LET m == Max(Max(Abs(ax), Abs(az)), Max(Abs(bx), Abs(bz)))
      k == m \div 32768 + 1
  IN Sign(TDiv(ax, k) * TDiv(bx, k) + TDiv(az, k) * TDiv(bz, k))

\* ------------------------------------------------------------------------
\* Ice force model
\* ------------------------------------------------------------------------
\* mu(v) = mu0 * v^(-0.5), clamped to muMax, scaled while sweeping
baseMu(speed, ice) ==
  IF speed > 10000
  THEN Min((ice.mu0 * 10000) \div Isqrt(speed * 100), ice.muMax)
  ELSE ice.muMax

mu(speed, ice, sweeping) ==
  IF sweeping THEN RDiv(baseMu(speed, ice) * ice.sweepMuFactor, 1000)
  ELSE baseMu(speed, ice)

spinDecay(omega, speed, ice) ==
  IF Abs(omega) < 1000 THEN 0
  ELSE -Sign(omega) * RDiv(RDiv(ice.kSpin * STONE_MASS * GRAVITY, 10000)
                           * (1000 + 2000000000 \div (1000000 + speed)), 1000)

\* -spinSign * curlMagnitude * omegaFactor, 0 without significant spin
curlAccel(stone, ice, sweeping, speed) ==
  IF Abs(stone.omega) > 50000
  THEN LET curlCoeff == IF sweeping
                        THEN RDiv(ice.curlCoeff * ice.sweepCurlFactor, 1000)
                        ELSE ice.curlCoeff
           curlMagnitude == RDiv(curlCoeff * Min(RDiv(1000000000, speed), 8000), 1000)
           omegaFactor == Min(Abs(stone.omega) \div 30, 10000)
       IN -Sign(stone.omega) * Scale(curlMagnitude, omegaFactor, 10000)
  ELSE 0

\* friction along -vHat plus curl along (vHatZ, -vHatX)
iceAccel(vHatX, vHatZ, frictionAccel, curl, alphaOmega) ==
  [ax |-> -Scale(frictionAccel, vHatX, 10000) + Scale(curl, vHatZ, 10000),
   az |-> -Scale(frictionAccel, vHatZ, 10000) + Scale(curl, -vHatX, 10000),
   alphaOmega |-> alphaOmega]

iceForcesAtSpeed(stone, ice, sweeping, speed) ==
  IF speed < 500
  THEN [ax |-> 0, az |-> 0, alphaOmega |-> spinDecay(stone.omega, speed, ice)]
  ELSE iceAccel(Ratio(stone.vel.x, speed), Ratio(stone.vel.z, speed),
                RDiv(mu(speed, ice, sweeping) * GRAVITY, 100),
                curlAccel(stone, ice, sweeping, speed),
                spinDecay(stone.omega, speed, ice))

computeIceForces(stone, ice, sweeping) ==
  iceForcesAtSpeed(stone, ice, sweeping, vecLen(stone.vel.x, stone.vel.z))

\* ------------------------------------------------------------------------
\* Integrator (the per-stone loop of stepPhysics, in the order of the source)
\* ------------------------------------------------------------------------
\* update position from the new velocity, then clamp a spin below threshold
advanceStone(s, vel, omega) ==
  [s EXCEPT !.vel = vel,
            !.pos = [x |-> s.pos.x + RDiv(vel.x * PHYSICS_DT, 6000),
                     z |-> s.pos.z + RDiv(vel.z * PHYSICS_DT, 6000)],
            !.angle = s.angle + RDiv(omega * PHYSICS_DT, 600),
            !.omega = IF omega # 0 /\ Abs(omega) < SETTLE_OMEGA_THRESHOLD THEN 0 ELSE omega]

\* dot of the velocity with the velocity before friction: zero it if negative
preventReversal(s, speed, axdt, azdt, vel, omega) ==
  IF speed > SETTLE_VEL_THRESHOLD
     /\ DotSign(vel.x, vel.z, vel.x - axdt, vel.z - azdt) < 0
  THEN advanceStone(s, [x |-> 0, z |-> 0], omega)
  ELSE advanceStone(s, vel, omega)

\* newSpeed > speed * 1.5: zero the velocity
preventOvershoot(s, speed, axdt, azdt, omega) ==
  IF speed > SETTLE_VEL_THRESHOLD
     /\ 2 * vecLen(s.vel.x + axdt, s.vel.z + azdt) > 3 * speed
  THEN preventReversal(s, speed, axdt, azdt, [x |-> 0, z |-> 0], omega)
  ELSE preventReversal(s, speed, axdt, azdt,
                       [x |-> s.vel.x + axdt, z |-> s.vel.z + azdt], omega)

applyForces(s, speed, f) ==
  preventOvershoot(s, speed, RDiv(f.ax * PHYSICS_DT, 600), RDiv(f.az * PHYSICS_DT, 600),
                   s.omega + RDiv(f.alphaOmega * PHYSICS_DT, 600))

integrateAtSpeed_keepSpin(s, ice, sweeping, speed) ==
  IF speed < SETTLE_VEL_THRESHOLD /\ Abs(s.omega) < SETTLE_OMEGA_THRESHOLD
  THEN [s EXCEPT !.vel = [x |-> 0, z |-> 0]]
  ELSE applyForces(s, speed, computeIceForces(s, ice, sweeping))

integrateAtSpeed(s, ice, sweeping, speed) ==
  IF speed < SETTLE_VEL_THRESHOLD /\ Abs(s.omega) < SETTLE_OMEGA_THRESHOLD
  THEN [s EXCEPT !.vel = [x |-> 0, z |-> 0], !.omega = 0]
  ELSE applyForces(s, speed, computeIceForces(s, ice, sweeping))

IntegrateStone(s, ice, sweeping) ==
  IF ~s.inPlay THEN s
  ELSE integrateAtSpeed(s, ice, sweeping, vecLen(s.vel.x, s.vel.z))

\* ------------------------------------------------------------------------
\* Collision resolver
\* ------------------------------------------------------------------------
moveStone(s, dx, dz) == [s EXCEPT !.pos = [x |-> s.pos.x + dx, z |-> s.pos.z + dz]]

\* returns the pair <<a', b'>>
positionalCorrection(a, b, dist, nx, nz) ==
  LET correction == RDiv((CONTACT_DIST - dist - POSITIONAL_SLOP)
                         * POSITIONAL_CORRECTION_FACTOR, 2000)
  IN IF CONTACT_DIST - dist <= POSITIONAL_SLOP THEN <<a, b>>
     ELSE << moveStone(a, -Scale(correction, nx, 10000), -Scale(correction, nz, 10000)),
             moveStone(b, Scale(correction, nx, 10000), Scale(correction, nz, 10000)) >>

\* centre distance of two stones, CONTACT_DIST when it is CONTACT_DIST or more
contactDist(a, b) ==
  LET dx == b.pos.x - a.pos.x
      dz == b.pos.z - a.pos.z
  IN IF Abs(dx) >= CONTACT_DIST \/ Abs(dz) >= CONTACT_DIST THEN CONTACT_DIST
     ELSE IF dx * dx + dz * dz >= CONTACT_DIST * CONTACT_DIST THEN CONTACT_DIST
     ELSE Isqrt(dx * dx + dz * dz)

\* velocity and spin change of one stone; impulses are per unit of stone mass
\* (jNormal / STONE_MASS), so omega changes by 2 * jTangent / STONE_RADIUS
kick(s, sign, nx, nz, jNormal, jTangent) ==
  [s EXCEPT !.vel = [x |-> s.vel.x + sign * (Scale(jNormal, nx, 10000)
                                            + Scale(jTangent, -nz, 10000)),
                     z |-> s.vel.z + sign * (Scale(jNormal, nz, 10000)
                                            + Scale(jTangent, nx, 10000))],
            !.omega = s.omega - sign * Scale(jTangent, 20000, STONE_RADIUS) * 10]

tangentImpulse(a, b, nx, nz, jNormal) ==
  LET relVelTangent == Scale(b.vel.x - a.vel.x, -nz, 10000)
                       + Scale(b.vel.z - a.vel.z, nx, 10000)
      surfaceVelA == RDiv(Scale(a.omega, STONE_RADIUS, 10000), 10)
      surfaceVelB == -RDiv(Scale(b.omega, STONE_RADIUS, 10000), 10)
      totalTangentVel == relVelTangent + surfaceVelA + surfaceVelB
      jTangentMax == Scale(Abs(jNormal), COLLISION_TANGENTIAL_FRICTION, 1000)
  IN Max(-jTangentMax, Min(jTangentMax, RDiv(-totalTangentVel, 2)))

applyImpulses(a, b, dist, nx, nz, jNormal, jTangent) ==
  positionalCorrection(kick(a, -1, nx, nz, jNormal, jTangent),
                       kick(b, 1, nx, nz, jNormal, jTangent), dist, nx, nz)

normalImpulse(relVelNormal) ==
  RDiv(-(1000 + COLLISION_RESTITUTION) * TDiv(relVelNormal, 10), 200)

resolveApproach(a, b, dist, nx, nz, relVelNormal) ==
  IF relVelNormal > 0
  THEN positionalCorrection(a, b, dist, nx, nz)
  ELSE applyImpulses(a, b, dist, nx, nz, normalImpulse(relVelNormal),
                     tangentImpulse(a, b, nx, nz, normalImpulse(relVelNormal)))

resolveAlongNormal(a, b, dist, nx, nz) ==
  resolveApproach(a, b, dist, nx, nz,
                  Scale(b.vel.x - a.vel.x, nx, 10000) + Scale(b.vel.z - a.vel.z, nz, 10000))

resolveAtDist_anyDistance(a, b, dist) ==
  IF b.pos.x = a.pos.x /\ b.pos.z = a.pos.z THEN <<a, b>>
  ELSE resolveAlongNormal(a, b, dist,
                          Ratio(b.pos.x - a.pos.x, dist), Ratio(b.pos.z - a.pos.z, dist))

resolveAtDist(a, b, dist) ==
  IF dist >= CONTACT_DIST \/ (b.pos.x = a.pos.x /\ b.pos.z = a.pos.z) THEN <<a, b>>
  ELSE resolveAlongNormal(a, b, dist,
                          Ratio(b.pos.x - a.pos.x, dist), Ratio(b.pos.z - a.pos.z, dist))

resolveStoneStone(a, b) == resolveAtDist(a, b, contactDist(a, b))

resolveWall(s, halfWidth) ==
  IF s.pos.x - STONE_RADIUS < -halfWidth \/ s.pos.x + STONE_RADIUS > halfWidth
  THEN [s EXCEPT !.inPlay = FALSE]
  ELSE s

\* indices of the in-play stones, in list order (stones.filter(s => s.inPlay))
ActiveIdx(stones) ==
  SelectSeq([i \in 1..Len(stones) |-> i], LAMBDA i : stones[i].inPlay)

setPair(stones, i, j, r) == [stones EXCEPT ![i] = r[1], ![j] = r[2]]

RECURSIVE resolvePairs(_, _, _, _)
resolvePairs(stones, active, i, j) ==
  IF i > Len(active) THEN stones
  ELSE IF j > Len(active) THEN resolvePairs(stones, active, i + 1, i + 2)
  ELSE resolvePairs(setPair(stones, active[i], active[j],
                            resolveStoneStone(stones[active[i]], stones[active[j]])),
                    active, i, j + 1)

\* the wall loop runs over the stones that were in play on entry
resolveWalls(stones, hit) ==
  [i \in 1..Len(stones) |->
     IF stones[i].inPlay THEN resolveWall(hit[i], HALF_WIDTH) ELSE hit[i]]

resolveCollisions_wallsFirst(stones) ==
  resolvePairs(resolveWalls(stones, stones), ActiveIdx(stones), 1, 2)

resolveCollisions(stones) ==
  resolveWalls(stones, resolvePairs(stones, ActiveIdx(stones), 1, 2))

stepPhysics(stones, ice, sweeping) ==
  resolveCollisions([i \in 1..Len(stones) |-> IntegrateStone(stones[i], ice, sweeping)])

\* ------------------------------------------------------------------------
\* Rules engine
\* ------------------------------------------------------------------------
applyRulesStone_recompute(s, targetEnd) ==
  [s EXCEPT !.inPlay = /\ Abs(s.pos.x) <= HALF_WIDTH + STONE_RADIUS * 2
                       /\ (targetEnd = -1 => s.pos.z >= targetEnd * BACK_LINE_Z - STONE_RADIUS)
                       /\ (targetEnd = 1 => s.pos.z <= targetEnd * BACK_LINE_Z + STONE_RADIUS)]

applyRulesStone(s, targetEnd) ==
  LET backLine == targetEnd * BACK_LINE_Z
  IN IF ~s.inPlay THEN s
     ELSE IF Abs(s.pos.x) > HALF_WIDTH + STONE_RADIUS * 2 THEN [s EXCEPT !.inPlay = FALSE]
     ELSE IF targetEnd = -1 /\ s.pos.z < backLine - STONE_RADIUS THEN [s EXCEPT !.inPlay = FALSE]
     ELSE IF targetEnd = 1 /\ s.pos.z > backLine + STONE_RADIUS THEN [s EXCEPT !.inPlay = FALSE]
     ELSE s

applyRules(stones, deliveredStoneIndex, targetEnd) ==
  [i \in 1..Len(stones) |-> applyRulesStone(stones[i], targetEnd)]

checkHogLineViolation_leadingEdge(stone, targetEnd) ==
  LET hogLine == targetEnd * HOG_Z
  IN IF targetEnd = -1
     THEN stone.pos.z - STONE_RADIUS > hogLine
     ELSE stone.pos.z + STONE_RADIUS < hogLine

checkHogLineViolation(stone, targetEnd) ==
  LET hogLine == targetEnd * HOG_Z
  IN IF targetEnd = -1
     THEN stone.pos.z + STONE_RADIUS > hogLine
     ELSE stone.pos.z - STONE_RADIUS < hogLine

\* x*x as <<high, low>> digits in base 10^8 (exact; x*x may exceed 32 bits)
Square(x) ==
  LET x1 == Abs(x) \div 10000
      x0 == Abs(x) % 10000
      m == 2 * x1 * x0
      lo == (m % 10000) * 10000 + x0 * x0
  IN << x1 * x1 + m \div 10000 + lo \div 100000000, lo % 100000000 >>

\* (x - tee.x)^2 + (z - tee.z)^2; Math.sqrt is monotone, so the squared
\* distance orders the stones exactly as the source's dist does
distToTee(pos, tee) ==
  LET a == Square(pos.x - tee.x)
      b == Square(pos.z - tee.z)
  IN << a[1] + b[1] + (a[2] + b[2]) \div 100000000, (a[2] + b[2]) % 100000000 >>

distLess(p, q) == p[1] < q[1] \/ (p[1] = q[1] /\ p[2] < q[2])

\* Array.prototype.sort with (a, b) => a.dist - b.dist: ascending, stable
RECURSIVE sortInsert(_, _)
sortInsert(sorted, e) ==
  IF sorted = <<>> THEN <<e>>
  ELSE IF distLess(e.dist, Head(sorted).dist) THEN <<e>> \o sorted
  ELSE <<Head(sorted)>> \o sortInsert(Tail(sorted), e)

RECURSIVE sortByDist(_, _)
sortByDist(sorted, rest) ==
  IF rest = <<>> THEN sorted
  ELSE sortByDist(sortInsert(sorted, Head(rest)), Tail(rest))

\* the for-loop of scoreEnd: counts until the first stone that fails the test
RECURSIVE countScoring(_, _, _, _)
countScoring(withDist, closestTeam, hasOther, cutoff) ==
  IF withDist = <<>> THEN 0
  ELSE LET s == Head(withDist)
       IN IF s.team = closestTeam /\ (~hasOther \/ distLess(s.dist, cutoff))
          THEN 1 + countScoring(Tail(withDist), closestTeam, hasOther, cutoff)
          ELSE 0

\* the stones in play with their distance to the tee, nearest first
sortedByDist(stones, tee) ==
  sortByDist(<<>>, [i \in 1..Len(stones) |->
                      [team |-> stones[i].team, dist |-> distToTee(stones[i].pos, tee)]])

scoreOfTeam(closestTeam, score) ==
  [red |-> IF closestTeam = "red" THEN score ELSE 0,
   yellow |-> IF closestTeam = "yellow" THEN score ELSE 0,
   winner |-> closestTeam]

\* others = the stones of the team that is not closest, nearest first
scoreAgainst(withDist, closestTeam, others) ==
  scoreOfTeam(closestTeam,
              countScoring(withDist, closestTeam, others # <<>>,
                           IF others # <<>> THEN others[1].dist ELSE <<0, 0>>))

scoreForClosest(withDist, closestTeam) ==
  scoreAgainst(withDist, closestTeam,
               SelectSeq(withDist, LAMBDA s : s.team # closestTeam))

scoreSorted(withDist) ==
  IF withDist = <<>> THEN [red |-> 0, yellow |-> 0, winner |-> "none"]
  ELSE scoreForClosest(withDist, withDist[1].team)

scoreEnd_countsOutOfPlay(stones, targetEnd) ==
  scoreSorted(sortedByDist(stones, [x |-> 0, z |-> targetEnd * TEE_Z]))

\* winner is "none" where the source returns null
scoreEnd(stones, targetEnd) ==
  scoreSorted(sortedByDist(SelectSeq(stones, LAMBDA s : s.inPlay),
                           [x |-> 0, z |-> targetEnd * TEE_Z]))

\* ------------------------------------------------------------------------
\* PhysicsWorld
\* ------------------------------------------------------------------------
NewPhysicsWorld ==
  [stones |-> <<>>, ice |-> DEFAULT_ICE_PARAMS, sweeping |-> FALSE,
   targetEnd |-> -1, deliveredStoneIndex |-> -1, accumulator |-> 0]

stoneMoving(s) ==
  s.inPlay /\ (Abs(s.vel.x) > 1000 \/ Abs(s.vel.z) > 1000 \/ Abs(s.omega) > 10000)

isSimulating(w) == \E i \in 1..Len(w.stones) : stoneMoving(w.stones[i])

resetEnd_keepStones(w) ==
  [w EXCEPT !.deliveredStoneIndex = -1, !.accumulator = 0]

resetEnd(w) ==
  [w EXCEPT !.stones = <<>>, !.deliveredStoneIndex = -1, !.accumulator = 0]

\* Math.sin / Math.cos of the release angles used (angle in 1e-3 rad)
Sin(angle) ==
  CASE angle = 0 -> 0
    [] angle = 100 -> 998
    [] angle = -100 -> -998
    [] angle = 1571 -> 10000
    [] angle = -1571 -> -10000

Cos(angle) ==
  CASE angle = 0 -> 10000
    [] angle = 100 -> 9950
    [] angle = -100 -> 9950
    [] angle = 1571 -> 0
    [] angle = -1571 -> 0

deliverStone_lengthAsIndex(w, team, release, deliveryIndex) ==
  [w EXCEPT !.stones = Append(w.stones,
                         [pos |-> [x |-> release.x,
                                   z |-> IF w.targetEnd = -1 THEN HACK_Z ELSE -HACK_Z],
                          vel |-> [x |-> -w.targetEnd * Scale(release.speed, Sin(release.angle), 10000),
                                   z |-> w.targetEnd * Scale(release.speed, Cos(release.angle), 10000)],
                          omega |-> release.omega, angle |-> 0, team |-> team,
                          inPlay |-> TRUE, deliveryIndex |-> deliveryIndex]),
               !.deliveredStoneIndex = Len(w.stones) + 1]

deliverStone(w, team, release, deliveryIndex) ==
  LET hackZ == IF w.targetEnd = -1 THEN HACK_Z ELSE -HACK_Z
      stone == [pos |-> [x |-> release.x, z |-> hackZ],
                vel |-> [x |-> -w.targetEnd * Scale(release.speed, Sin(release.angle), 10000),
                         z |-> w.targetEnd * Scale(release.speed, Cos(release.angle), 10000)],
                omega |-> release.omega,
                angle |-> 0,
                team |-> team,
                inPlay |-> TRUE,
                deliveryIndex |-> deliveryIndex]
  IN [w EXCEPT !.stones = Append(w.stones, stone),
               !.deliveredStoneIndex = Len(w.stones)]

\* the while-loop of PhysicsWorld.update
RECURSIVE stepLoop(_, _)
stepLoop(w, steps) ==
  IF w.accumulator >= PHYSICS_DT
  THEN stepLoop([w EXCEPT
                   !.stones = applyRules(stepPhysics(w.stones, w.ice, w.sweeping),
                                         w.deliveredStoneIndex, w.targetEnd),
                   !.accumulator = w.accumulator - PHYSICS_DT], steps + 1)
  ELSE [world |-> w, steps |-> steps]

hogLineCheck_everyStone(w) ==
  [w EXCEPT
     !.stones = [i \in 1..Len(w.stones) |->
                   IF w.stones[i].inPlay /\ checkHogLineViolation(w.stones[i], w.targetEnd)
                   THEN [w.stones[i] EXCEPT !.inPlay = FALSE]
                   ELSE w.stones[i]],
     !.deliveredStoneIndex = -1]

hogLineCheck_keepIndex(w) ==
  LET idx == w.deliveredStoneIndex
  IN [w EXCEPT
        !.stones = IF /\ idx >= 0
                      /\ idx < Len(w.stones)
                      /\ w.stones[idx + 1].inPlay
                      /\ checkHogLineViolation(w.stones[idx + 1], w.targetEnd)
                   THEN [w.stones EXCEPT ![idx + 1].inPlay = FALSE]
                   ELSE w.stones]

\* the hog-line check made when motion ceases, and the delivered index reset
hogLineCheck(w) ==
  LET idx == w.deliveredStoneIndex
  IN [w EXCEPT
        !.stones = IF /\ idx >= 0
                      /\ idx < Len(w.stones)
                      /\ w.stones[idx + 1].inPlay
                      /\ checkHogLineViolation(w.stones[idx + 1], w.targetEnd)
                   THEN [w.stones EXCEPT ![idx + 1].inPlay = FALSE]
                   ELSE w.stones,
        !.deliveredStoneIndex = -1]

afterSteps_neverSettled(r) ==
  [world |-> r.world, stillMoving |-> TRUE, steps |-> r.steps]

afterSteps(r) ==
  IF ~isSimulating(r.world)
  THEN [world |-> hogLineCheck(r.world), stillMoving |-> FALSE, steps |-> r.steps]
  ELSE [world |-> r.world, stillMoving |-> TRUE, steps |-> r.steps]

worldUpdate_capOneStepLater(w, elapsedSec) ==
  afterSteps(stepLoop([w EXCEPT !.accumulator = Min(w.accumulator + elapsedSec,
                                                     ACCUMULATOR_CAP + PHYSICS_DT)], 0))

\* returns [world, stillMoving, steps]; steps = physics steps run by this call
worldUpdate(w, elapsedSec) ==
  afterSteps(stepLoop([w EXCEPT !.accumulator = Min(w.accumulator + elapsedSec,
                                                     ACCUMULATOR_CAP)], 0))

worldScore(w) == scoreEnd(w.stones, w.targetEnd)

\* ------------------------------------------------------------------------
\* GameController
\* ------------------------------------------------------------------------
NewGameController ==
  [phase |-> "AIMING", world |-> NewPhysicsWorld, scoreHistory |-> <<>>,
   totalScore |-> [red |-> 0, yellow |-> 0], currentEnd |-> 1,
   hammerTeam |-> "yellow", deliveryCount |-> 0, scoreDisplayTimer |-> 0]

otherOf(team) == IF team = "red" THEN "yellow" ELSE "red"

teamOfDelivery(hammerTeam, i) ==
  LET firstTeam == IF hammerTeam = "red" THEN "yellow" ELSE "red"
  IN IF i % 2 = 0 THEN firstTeam ELSE hammerTeam

currentTeam_hammerFirst(c) ==
  teamOfDelivery(IF c.hammerTeam = "red" THEN "yellow" ELSE "red", c.deliveryCount)

currentTeam(c) == teamOfDelivery(c.hammerTeam, c.deliveryCount)

throwStone_anyPhase(c, release) ==
  [c EXCEPT !.world = deliverStone(c.world, currentTeam(c), release, c.deliveryCount),
            !.deliveryCount = c.deliveryCount + 1,
            !.phase = "DELIVERING"]

throwStone(c, release) ==
  IF c.phase # "AIMING" THEN c
  ELSE [c EXCEPT !.world = deliverStone(c.world, currentTeam(c), release, c.deliveryCount),
                 !.deliveryCount = c.deliveryCount + 1,
                 !.phase = "DELIVERING"]

recordEnd_totalIsLastEnd(c, result) ==
  [c EXCEPT !.scoreHistory = Append(c.scoreHistory,
                                    [red |-> result.red, yellow |-> result.yellow]),
            !.totalScore = [red |-> result.red, yellow |-> result.yellow],
            !.hammerTeam = IF result.winner # "none"
                           THEN (IF result.winner = "red" THEN "yellow" ELSE "red")
                           ELSE c.hammerTeam,
            !.phase = IF c.currentEnd >= ENDS_PER_GAME THEN "GAME_OVER" ELSE "END_SCORE",
            !.scoreDisplayTimer = IF c.currentEnd >= ENDS_PER_GAME
                                  THEN c.scoreDisplayTimer ELSE 0]

recordEnd(c, result) ==
  [c EXCEPT !.scoreHistory = Append(c.scoreHistory,
                                    [red |-> result.red, yellow |-> result.yellow]),
            !.totalScore = [red |-> c.totalScore.red + result.red,
                            yellow |-> c.totalScore.yellow + result.yellow],
            !.hammerTeam = IF result.winner # "none"
                           THEN (IF result.winner = "red" THEN "yellow" ELSE "red")
                           ELSE c.hammerTeam,
            !.phase = IF c.currentEnd >= ENDS_PER_GAME THEN "GAME_OVER" ELSE "END_SCORE",
            !.scoreDisplayTimer = IF c.currentEnd >= ENDS_PER_GAME
                                  THEN c.scoreDisplayTimer ELSE 0]

endEnd(c) == recordEnd(c, worldScore(c.world))

startNextEnd(c) ==
  [c EXCEPT !.currentEnd = c.currentEnd + 1,
            !.deliveryCount = 0,
            !.world = [resetEnd(c.world) EXCEPT
                         !.targetEnd = IF c.world.targetEnd = -1 THEN 1 ELSE -1],
            !.phase = "AIMING"]

afterWorldUpdate_ignoreMotion(c, r) ==
  IF c.deliveryCount >= STONES_PER_TEAM * 2 THEN endEnd([c EXCEPT !.world = r.world])
  ELSE [c EXCEPT !.world = r.world, !.phase = "AIMING"]

afterWorldUpdate_scoreEarly(c, r) ==
  IF r.stillMoving THEN [c EXCEPT !.world = r.world, !.phase = "DELIVERING"]
  ELSE IF c.deliveryCount >= STONES_PER_TEAM * 2 - 1 THEN endEnd([c EXCEPT !.world = r.world])
  ELSE [c EXCEPT !.world = r.world, !.phase = "AIMING"]

\* update in DELIVERING or SETTLING, r = the result of world.update(dt)
afterWorldUpdate(c, r) ==
  IF r.stillMoving THEN [c EXCEPT !.world = r.world, !.phase = "DELIVERING"]
  ELSE IF c.deliveryCount >= STONES_PER_TEAM * 2 THEN endEnd([c EXCEPT !.world = r.world])
  ELSE [c EXCEPT !.world = r.world, !.phase = "AIMING"]

\* update in END_SCORE, c = the controller with the timer advanced
afterTimer(c) ==
  IF c.scoreDisplayTimer >= SCORE_DISPLAY_DURATION THEN startNextEnd(c) ELSE c

update(c, dt) ==
  IF c.phase \in {"DELIVERING", "SETTLING"}
  THEN afterWorldUpdate(c, worldUpdate(c.world, dt))
  ELSE IF c.phase = "END_SCORE"
  THEN afterTimer([c EXCEPT !.scoreDisplayTimer = c.scoreDisplayTimer + dt])
  ELSE c

resetGame_keepHammer(c) ==
  [c EXCEPT !.currentEnd = 1,
            !.deliveryCount = 0,
            !.totalScore = [red |-> 0, yellow |-> 0],
            !.scoreHistory = <<>>,
            !.world = NewPhysicsWorld,
            !.phase = "AIMING"]

resetGame(c) ==
  [c EXCEPT !.currentEnd = 1,
            !.deliveryCount = 0,
            !.totalScore = [red |-> 0, yellow |-> 0],
            !.scoreHistory = <<>>,
            !.hammerTeam = "yellow",
            !.world = NewPhysicsWorld,
            !.phase = "AIMING"]

setSweeping(c, active) == [c EXCEPT !.world.sweeping = active]

\* ------------------------------------------------------------------------
\* HeadlessGame
\* ------------------------------------------------------------------------
MaxSettleLog2 == 13

addSteps(u, steps) ==
  [world |-> u.world, stillMoving |-> u.stillMoving, steps |-> steps + u.steps]

\* PhysicsWorld.runUntilSettled: update by one fixed step until nothing moves.
\* r = [world, stillMoving, steps]; runs at most 2^k further updates.
RECURSIVE runChunk(_, _)
runChunk(r, k) ==
  IF ~r.stillMoving THEN r
  ELSE IF k = 0 THEN addSteps(worldUpdate(r.world, PHYSICS_DT), r.steps)
  ELSE runChunk(runChunk(r, k - 1), k - 1)

runUntilSettled(w) ==
  runChunk([world |-> w, stillMoving |-> TRUE, steps |-> 0], MaxSettleLog2)

headlessRecordEnd_keepHammer(c, result) ==
  [c EXCEPT !.scoreHistory = Append(c.scoreHistory,
                                    [red |-> result.red, yellow |-> result.yellow]),
            !.totalScore = [red |-> c.totalScore.red + result.red,
                            yellow |-> c.totalScore.yellow + result.yellow],
            !.phase = IF c.currentEnd >= HEADLESS_ENDS_PER_GAME
                      THEN "GAME_OVER" ELSE "END_SCORE"]

headlessRecordEnd(c, result) ==
  [c EXCEPT !.scoreHistory = Append(c.scoreHistory,
                                    [red |-> result.red, yellow |-> result.yellow]),
            !.totalScore = [red |-> c.totalScore.red + result.red,
                            yellow |-> c.totalScore.yellow + result.yellow],
            !.hammerTeam = IF result.winner # "none"
                           THEN (IF result.winner = "red" THEN "yellow" ELSE "red")
                           ELSE c.hammerTeam,
            !.phase = IF c.currentEnd >= HEADLESS_ENDS_PER_GAME
                      THEN "GAME_OVER" ELSE "END_SCORE"]

\* throwAndSettle after the world has been run
afterSettle(c) ==
  IF isSimulating(c.world) THEN c
  ELSE IF c.deliveryCount >= HEADLESS_STONES_PER_END
  THEN headlessRecordEnd(c, worldScore(c.world))
  ELSE [c EXCEPT !.phase = "AIMING"]

settleWorld(c) == [c EXCEPT !.world = runUntilSettled(c.world).world]

\* the body of throwAndSettle after the phase check
throwAndSettle(c, release) == afterSettle(settleWorld(throwStone(c, release)))

\* HeadlessGame.simulateEnd
MAX_SHOTS == 16

\* the loop over the shots from shot i on; a throwAndSettle outside AIMING
\* throws and ends the call
RECURSIVE simulateShots(_, _, _)
\* after shot i has been thrown and settled: break when the end is complete
afterShot(c, shots, i) ==
  IF c.phase \in {"END_SCORE", "GAME_OVER"}
  THEN [game |-> c, used |-> i, status |-> "returned"]
  ELSE simulateShots(c, shots, i + 1)

simulateShots(c, shots, i) ==
  IF i > Min(Len(shots), MAX_SHOTS)
  THEN [game |-> c, used |-> i - 1, status |-> "returned"]
  ELSE IF c.phase # "AIMING"
  THEN [game |-> c, used |-> i - 1, status |-> "threw"]
  ELSE afterShot(throwAndSettle(c, shots[i]), shots, i)

\* the advance to the next end when the loop leaves the game in END_SCORE
advanceEnd(c) ==
  IF c.phase = "END_SCORE"
  THEN [c EXCEPT !.currentEnd = c.currentEnd + 1,
                 !.deliveryCount = 0,
                 !.world = [resetEnd(c.world) EXCEPT
                              !.targetEnd = IF c.world.targetEnd = -1 THEN 1 ELSE -1],
                 !.phase = "AIMING"]
  ELSE c

\* after the loop: the score is taken, then the end advanced; sheet is the
\* stone list the score was taken from
finishEnd_scoreAfterAdvance(r) ==
  IF r.status = "threw"
  THEN [game |-> r.game, used |-> r.used, status |-> r.status,
        score |-> [red |-> 0, yellow |-> 0, winner |-> "none"],
        sheet |-> r.game.world.stones]
  ELSE [game |-> advanceEnd(r.game), used |-> r.used, status |-> r.status,
        score |-> worldScore(advanceEnd(r.game).world),
        sheet |-> r.game.world.stones]

finishEnd(r) ==
  IF r.status = "threw"
  THEN [game |-> r.game, used |-> r.used, status |-> r.status,
        score |-> [red |-> 0, yellow |-> 0, winner |-> "none"],
        sheet |-> r.game.world.stones]
  ELSE [game |-> advanceEnd(r.game), used |-> r.used, status |-> r.status,
        score |-> worldScore(r.game.world),
        sheet |-> r.game.world.stones]

simulateEnd(c, shots) == finishEnd(simulateShots(c, shots, 1))

\* ------------------------------------------------------------------------
\* The frame loop (main.ts animate): game.update(dt) once per frame
\* ------------------------------------------------------------------------
\* update called frame after frame while the phase is DELIVERING; runs at
\* most 2^k further frames
RECURSIVE frames(_, _, _)
frames(c, dt, k) ==
  IF c.phase # "DELIVERING" THEN c
  ELSE IF k = 0 THEN update(c, dt)
  ELSE frames(frames(c, dt, k - 1), dt, k - 1)

\* throwStone, then the frame loop until the phase leaves DELIVERING
throwAndAnimate(c, release, dt) == frames(throwStone(c, release), dt, MaxSettleLog2)

\* ------------------------------------------------------------------------
\* Objects: the storage games are made of
\* ------------------------------------------------------------------------
\* A store holds the objects of each kind in allocation order and a reference
\* is an index into it: vec (a pos or vel), stone, list (a stones array),
\* score (a totalScore or history entry), history (a scoreHistory array),
\* ice and world. A game g is the GameController object: its scalar fields
\* and its references to a totalScore, a scoreHistory and a world.
NewStore ==
  [vec |-> <<>>, stone |-> <<>>, list |-> <<>>, score |-> <<>>,
   history |-> <<>>, ice |-> <<>>, world |-> <<>>]

\* the values reached from a reference
stoneAt(h, r) ==
  [pos |-> h.vec[h.stone[r].pos], vel |-> h.vec[h.stone[r].vel],
   omega |-> h.stone[r].omega, angle |-> h.stone[r].angle,
   team |-> h.stone[r].team, inPlay |-> h.stone[r].inPlay,
   deliveryIndex |-> h.stone[r].deliveryIndex]

stonesAt(h, r) == [i \in 1..Len(h.list[r]) |-> stoneAt(h, h.list[r][i])]

worldAt(h, r) ==
  [stones |-> stonesAt(h, h.world[r].stones), ice |-> h.ice[h.world[r].ice],
   sweeping |-> h.world[r].sweeping, targetEnd |-> h.world[r].targetEnd,
   deliveredStoneIndex |-> h.world[r].deliveredStoneIndex,
   accumulator |-> h.world[r].accumulator]

historyAt(h, r) == [i \in 1..Len(h.history[r]) |-> h.score[h.history[r][i]]]

gameAt(h, g) ==
  [phase |-> g.phase, world |-> worldAt(h, g.world),
   scoreHistory |-> historyAt(h, g.scoreHistory),
   totalScore |-> h.score[g.totalScore], currentEnd |-> g.currentEnd,
   hammerTeam |-> g.hammerTeam, deliveryCount |-> g.deliveryCount,
   scoreDisplayTimer |-> g.scoreDisplayTimer]

\* new HeadlessGame(): a GameController with its totalScore, scoreHistory and
\* PhysicsWorld, the world with its stones array and ice
allocGame(h) ==
  [store |-> [h EXCEPT !.score = Append(@, [red |-> 0, yellow |-> 0]),
                       !.history = Append(@, <<>>),
                       !.ice = Append(@, DEFAULT_ICE_PARAMS),
                       !.list = Append(@, <<>>),
                       !.world = Append(@, [stones |-> Len(h.list) + 1,
                                            ice |-> Len(h.ice) + 1,
                                            sweeping |-> FALSE, targetEnd |-> -1,
                                            deliveredStoneIndex |-> -1,
                                            accumulator |-> 0])],
   game |-> [phase |-> "AIMING", world |-> Len(h.world) + 1,
             scoreHistory |-> Len(h.history) + 1, totalScore |-> Len(h.score) + 1,
             currentEnd |-> 1, hammerTeam |-> "yellow", deliveryCount |-> 0,
             scoreDisplayTimer |-> 0]]

\* assignments to the fields of the stone r and of its pos and vel
putStone(h, r, s) ==
  [h EXCEPT !.vec[h.stone[r].pos] = s.pos,
            !.vec[h.stone[r].vel] = s.vel,
            !.stone[r] = [@ EXCEPT !.omega = s.omega, !.angle = s.angle,
                                   !.team = s.team, !.inPlay = s.inPlay,
                                   !.deliveryIndex = s.deliveryIndex]]

\* stones.push of a new stone object with its own pos and vel
pushStone(h, r, s) ==
  [h EXCEPT !.vec = @ \o <<s.pos, s.vel>>,
            !.stone = Append(@, [pos |-> Len(h.vec) + 1, vel |-> Len(h.vec) + 2,
                                 omega |-> s.omega, angle |-> s.angle,
                                 team |-> s.team, inPlay |-> s.inPlay,
                                 deliveryIndex |-> s.deliveryIndex]),
            !.list[r] = Append(@, Len(h.stone) + 1)]

\* the stones array r brought to the values stones, from element i on: the
\* stones it holds are assigned in place, further ones are pushed, and a
\* shorter list cuts the array
RECURSIVE putStones(_, _, _, _)
putStones(h, r, stones, i) ==
  IF i > Len(stones) THEN [h EXCEPT !.list[r] = SubSeq(@, 1, Len(stones))]
  ELSE IF i <= Len(h.list[r])
  THEN putStones(putStone(h, h.list[r][i], stones[i]), r, stones, i + 1)
  ELSE putStones(pushStone(h, r, stones[i]), r, stones, i + 1)

\* scoreHistory.push of the entries from i on that the array r lacks
RECURSIVE putHistory(_, _, _, _)
putHistory(h, r, entries, i) ==
  IF i > Len(entries) THEN h
  ELSE IF i <= Len(h.history[r]) THEN putHistory(h, r, entries, i + 1)
  ELSE putHistory([h EXCEPT !.score = Append(@, entries[i]),
                            !.history[r] = Append(@, Len(h.score) + 1)],
                  r, entries, i + 1)

\* assignments to the fields of the world r and to its stones
putWorld(h, r, w) ==
  putStones([h EXCEPT !.world[r] = [@ EXCEPT !.sweeping = w.sweeping,
                                             !.targetEnd = w.targetEnd,
                                             !.deliveredStoneIndex = w.deliveredStoneIndex,
                                             !.accumulator = w.accumulator]],
            h.world[r].stones, w.stones, 1)

\* PhysicsWorld.resetEnd: this.stones = []
newStones(h, r) ==
  [h EXCEPT !.list = Append(@, <<>>), !.world[r].stones = Len(h.list) + 1]

\* the scalar fields of the controller g assigned from c
assignGame(g, c) ==
  [g EXCEPT !.phase = c.phase, !.currentEnd = c.currentEnd,
            !.deliveryCount = c.deliveryCount, !.hammerTeam = c.hammerTeam,
            !.scoreDisplayTimer = c.scoreDisplayTimer]

\* the objects of g assigned in place from c
storeInPlace(h, g, c) ==
  putWorld(putHistory([h EXCEPT !.score[g.totalScore] = c.totalScore],
                      g.scoreHistory, c.scoreHistory, 1),
           g.world, c.world)

\* GameController.resetGame: a new totalScore, scoreHistory and PhysicsWorld
rebind(g, n) ==
  [g EXCEPT !.world = n.world, !.scoreHistory = n.scoreHistory,
            !.totalScore = n.totalScore]

\* the store and the game after an operation on g that left it with the
\* values c; renewed says what the operation replaced: "game" (resetGame),
\* "end" (resetEnd) or "none"
applied(h, g, c, renewed) ==
  IF renewed = "game"
  THEN [store |-> allocGame(h).store, game |-> rebind(assignGame(g, c), allocGame(h).game)]
  ELSE IF renewed = "end"
  THEN [store |-> storeInPlace(newStones(h, g.world), g, c), game |-> assignGame(g, c)]
  ELSE [store |-> storeInPlace(h, g, c), game |-> assignGame(g, c)]

\* HeadlessGame.clone
\* cloned.controller.world.stones = stones.map(copy of each stone)
cloneStones_shallow(h, r, from) ==
  [h EXCEPT !.list = Append(@, h.list[h.world[from].stones]),
            !.world[r].stones = Len(h.list) + 1]

cloneStones(h, r, from) ==
  putStones(newStones(h, r), Len(h.list) + 1, stonesAt(h, h.world[from].stones), 1)

\* the scalar fields of the world, and a copy of ice
cloneWorld(h, r, from) ==
  [h EXCEPT !.ice = Append(@, h.ice[h.world[from].ice]),
            !.world[r] = [@ EXCEPT !.ice = Len(h.ice) + 1,
                                   !.sweeping = h.world[from].sweeping,
                                   !.targetEnd = h.world[from].targetEnd,
                                   !.deliveredStoneIndex = h.world[from].deliveredStoneIndex,
                                   !.accumulator = h.world[from].accumulator]]

\* copies of totalScore and of scoreHistory with its entries
cloneScores(h, g) ==
  putHistory([h EXCEPT !.score = Append(@, h.score[g.totalScore]),
                       !.history = Append(@, <<>>)],
             Len(h.history) + 1, historyAt(h, g.scoreHistory), 1)

\* the controller n of the clone: the fields clone assigns
cloneFields(h, n, g) ==
  [n EXCEPT !.phase = g.phase, !.currentEnd = g.currentEnd,
            !.deliveryCount = g.deliveryCount, !.hammerTeam = g.hammerTeam,
            !.totalScore = Len(h.score) + 1, !.scoreHistory = Len(h.history) + 1]

cloneInto(n, g) ==
  [store |-> cloneStones(cloneWorld(cloneScores(n.store, g),
                                    n.game.world, g.world),
                         n.game.world, g.world),
   game |-> cloneFields(n.store, n.game, g)]

clone(h, g) == cloneInto(allocGame(h), g)

\* ------------------------------------------------------------------------
\* State
\* ------------------------------------------------------------------------
\* controller: the GameController (the one a HeadlessGame wraps).
\* call: the most recent call on it: the operation, the phase it was made
\*       in, the elapsed time passed (update only) and whether it returned
\*       or threw.
\* fn:   the application of a pure function to inputs drawn by Init, for the
\*       specifications that exercise one function on its own.
VARIABLES controller, call, fn

vars == <<controller, call, fn>>

Called(op, dt, status) ==
  [op |-> op, phase |-> controller.phase, dt |-> dt, status |-> status]

NoCall == [op |-> "new", phase |-> "AIMING", dt |-> 0, status |-> "returned"]
NoFn == [name |-> "none"]

\* ------------------------------------------------------------------------
\* Inputs
\* ------------------------------------------------------------------------
MaxFreeShots == 2
MaxTimer == 1800

\* a push that stops short of the hog line, and two draws to the house that
\* mirror each other about the centre line, released with opposite spins of
\* 0.3 rad/s
Short == [x |-> 0, z |-> 0, speed |-> 50000, angle |-> 0, omega |-> 0]
DrawL == [x |-> -30000, z |-> 0, speed |-> 2250000, angle |-> 0, omega |-> 300000]
DrawR == [x |-> 30000, z |-> 0, speed |-> 2250000, angle |-> 0, omega |-> -300000]

\* shots offered for the delivery made at delivery count k: MaxFreeShots
\* deliveries, from the fourth last of an end on, may draw, the hammer team
\* (odd k) on the left line and the other team on the right line
ShotMenu(k) ==
  IF k < 2 * STONES_PER_TEAM - 3 \/ k >= 2 * STONES_PER_TEAM - 3 + MaxFreeShots
  THEN {Short}
  ELSE IF k % 2 = 1 THEN {Short, DrawL} ELSE {Short, DrawR}

\* elapsed times offered to update: 0.2 s while stones run; 1.5 s or 3 s
\* otherwise, so that the score display ends both on and past its duration
DtMenu(c) ==
  IF c.phase \in {"DELIVERING", "SETTLING"} THEN {120}
  ELSE IF c.phase = "END_SCORE" THEN {dt \in {900, 1800} : c.scoreDisplayTimer < MaxTimer}
  ELSE {900}

\* stones offered to scoreEnd: at most MaxScoreStones stones of either team, in
\* or out of play, at offsets from the tee of the target end; two of the
\* offsets are at the same distance
MaxScoreStones == 3

ScoreOffsets ==
  {[x |-> 0, z |-> 5000], [x |-> -30000, z |-> -29565], [x |-> 30000, z |-> -29565]}

ScoreStone(team, inPlay, off, targetEnd, index) ==
  [pos |-> [x |-> off.x, z |-> targetEnd * TEE_Z + off.z],
   vel |-> [x |-> 0, z |-> 0], omega |-> 0, angle |-> 0,
   team |-> team, inPlay |-> inPlay, deliveryIndex |-> index]

ScoreInputs ==
  UNION {[1..n -> Team \X BOOLEAN \X ScoreOffsets] : n \in 0..MaxScoreStones}

\* ------------------------------------------------------------------------
\* Actions
\* ------------------------------------------------------------------------
Init ==
  /\ controller = NewGameController
  /\ call = NoCall
  /\ fn = NoFn

ThrowStone(release) ==
  /\ controller' = throwStone(controller, release)
  /\ call' = Called("throwStone", 0, "returned")
  /\ UNCHANGED fn

Update(dt) ==
  /\ controller' = update(controller, dt)
  /\ call' = Called("update", dt, "returned")
  /\ UNCHANGED fn

ResetGame ==
  /\ controller' = resetGame(controller)
  /\ call' = Called("resetGame", 0, "returned")
  /\ UNCHANGED fn

ThrowAndSettle_silent(release) ==
  /\ controller' = throwAndSettle(controller, release)
  /\ call' = Called("throwAndSettle", 0, "returned")
  /\ UNCHANGED fn

ThrowAndSettle(release) ==
  /\ IF controller.phase # "AIMING"
     THEN /\ call' = Called("throwAndSettle", 0, "threw")
          /\ UNCHANGED controller
     ELSE /\ controller' = throwAndSettle(controller, release)
          /\ call' = Called("throwAndSettle", 0, "returned")
  /\ UNCHANGED fn

\* the real-time game: a GameController driven by input and the frame loop
Next ==
  \/ \E release \in ShotMenu(controller.deliveryCount) : ThrowStone(release)
  \/ \E dt \in DtMenu(controller) : Update(dt)
  \/ ResetGame

Spec == Init /\ [][Next]_vars

\* the start of a game under the frame loop of main.ts: each team's first
\* stone is a draw or a short push, the stones after them short pushes, and
\* each frame calls update with 0.2 s; fn holds the parity of the frame count
InitLive ==
  /\ controller = NewGameController
  /\ call = NoCall
  /\ fn = [name |-> "frame", odd |-> FALSE]

Frame(dt) ==
  /\ controller' = update(controller, dt)
  /\ call' = Called("update", dt, "returned")
  /\ fn' = [fn EXCEPT !.odd = ~fn.odd]

NextLive ==
  \/ /\ controller.deliveryCount < MaxFreeShots
     /\ \E release \in (IF controller.deliveryCount < 2
                         THEN {Short, DrawL, DrawR} ELSE {Short}) :
          ThrowStone(release)
  \/ controller.phase = "DELIVERING" /\ Frame(ACCUMULATOR_CAP)

\* the frame loop keeps running while stones are under way
SpecLive ==
  /\ InitLive
  /\ [][NextLive]_vars
  /\ WF_fn(controller.phase = "DELIVERING" /\ fn' = [fn EXCEPT !.odd = ~fn.odd])

\* the headless driver, with the controller it exposes through
\* getController(): shots thrown and settled in one call, and short pushes
\* thrown on the controller and run by its update
NextHeadless ==
  \/ \E release \in ShotMenu(controller.deliveryCount) : ThrowAndSettle(release)
  \/ ThrowStone(Short)
  \/ \E dt \in DtMenu(controller) : Update(dt)
  \/ ResetGame

SpecHeadless == Init /\ [][NextHeadless]_vars

\* scoreEnd on its own, applied once to each drawn stone set
InitScore ==
  /\ controller = NewGameController
  /\ call = NoCall
  /\ \E targetEnd \in {-1, 1} : \E input \in ScoreInputs :
       fn = [name |-> "input", targetEnd |-> targetEnd,
             stones |-> [i \in 1..Len(input) |->
                           ScoreStone(input[i][1], input[i][2], input[i][3],
                                      targetEnd, i - 1)]]

ScoreEnd ==
  /\ fn.name = "input"
  /\ fn' = [name |-> "scoreEnd", targetEnd |-> fn.targetEnd, stones |-> fn.stones,
            result |-> scoreEnd(fn.stones, fn.targetEnd)]
  /\ UNCHANGED <<controller, call>>

NextScore == ScoreEnd

SpecScore == InitScore /\ [][NextScore]_vars

\* the headless driver beside the frame loop: each shot is thrown and settled
\* on the game, and fn holds what throwStone and the frame loop make of the
\* same game and the same shot
\* shots offered beside the frame loop: the first MaxFreeShots deliveries of
\* the first end may draw, while few stones are on the sheet
EarlyMenu(c) ==
  IF c.currentEnd > 1 \/ c.deliveryCount >= MaxFreeShots THEN {Short}
  ELSE IF c.deliveryCount % 2 = 1 THEN {Short, DrawL} ELSE {Short, DrawR}

ThrowBoth(release, dt) ==
  /\ controller.phase = "AIMING"
  /\ controller' = throwAndSettle(controller, release)
  /\ call' = Called("throwAndSettle", dt, "returned")
  /\ fn' = [name |-> "frames", dt |-> dt,
            game |-> throwAndAnimate(controller, release, dt)]

\* the score display is run down by update
ShowScore(dt) ==
  /\ controller.phase = "END_SCORE"
  /\ Update(dt)

NextBoth ==
  \/ \E release \in EarlyMenu(controller) : \E dt \in {7, 60} : ThrowBoth(release, dt)
  \/ \E dt \in DtMenu(controller) : ShowScore(dt)

SpecBoth == Init /\ [][NextBoth]_vars

\* headless games and their clones: fn holds the store, the games made so
\* far (the first is the original, the second its clone) and, per game, the
\* calls made on it since the clone was taken; controller shows the original
MaxCloneOps == 2

InitGames ==
  /\ controller = NewGameController
  /\ call = NoCall
  /\ fn = [name |-> "games", store |-> allocGame(NewStore).store,
           games |-> <<allocGame(NewStore).game>>, trail |-> <<<<>>>>]

Cloned == Len(fn.games) = 2

Game(k) == gameAt(fn.store, fn.games[k])

\* a call on game k that leaves it with the values c
Operate(k, op, arg, c, renewed) ==
  /\ IF Cloned THEN Len(fn.trail[1]) + Len(fn.trail[2]) < MaxCloneOps ELSE TRUE
  /\ fn' = [fn EXCEPT !.store = applied(fn.store, fn.games[k], c, renewed).store,
                      !.games[k] = applied(fn.store, fn.games[k], c, renewed).game,
                      !.trail[k] = IF Cloned THEN Append(@, [op |-> op, arg |-> arg]) ELSE @]
  /\ controller' = gameAt(fn'.store, fn'.games[1])
  /\ call' = [op |-> op, phase |-> Game(k).phase, dt |-> arg, status |-> "returned",
              on |-> k]

GameThrowAndSettle(k) ==
  /\ Game(k).phase = "AIMING"
  /\ Operate(k, "throwAndSettle", 0, throwAndSettle(Game(k), Short), "none")

\* getController().update(dt) while the score is shown
GameUpdate(k, dt) ==
  /\ Game(k).phase = "END_SCORE"
  /\ Operate(k, "update", dt, update(Game(k), dt),
             IF update(Game(k), dt).phase = "AIMING" THEN "end" ELSE "none")

\* getController().setSweeping(active): before the clone only as the game starts
GameSetSweeping(k, active) ==
  /\ Game(k).world.sweeping # active
  /\ IF Cloned THEN TRUE ELSE Game(k).currentEnd = 1 /\ Game(k).deliveryCount = 0
  /\ Operate(k, "setSweeping", IF active THEN 1 ELSE 0, setSweeping(Game(k), active), "none")

GameReset(k) ==
  /\ Cloned
  /\ Operate(k, "reset", 0, resetGame(Game(k)), "game")

\* getWorld().stones changed by the caller: the last stone moved 1 cm, taken
\* out of play, or popped from the list
Poked(c, how) ==
  IF how = 1 THEN [c EXCEPT !.world.stones[Len(c.world.stones)].pos.x = @ + 1000]
  ELSE IF how = 2 THEN [c EXCEPT !.world.stones[Len(c.world.stones)].inPlay = ~@]
  ELSE [c EXCEPT !.world.stones = SubSeq(@, 1, Len(@) - 1)]

GamePoke(k, how) ==
  /\ Cloned
  /\ Game(k).world.stones # <<>>
  /\ Operate(k, "poke", how, Poked(Game(k), how), "none")

Clone ==
  /\ ~Cloned
  /\ fn' = [fn EXCEPT !.store = clone(fn.store, fn.games[1]).store,
                      !.games = Append(@, clone(fn.store, fn.games[1]).game),
                      !.trail = <<<<>>, <<>>>>]
  /\ call' = [op |-> "clone", phase |-> controller.phase, dt |-> 0,
              status |-> "returned", on |-> 1]
  /\ UNCHANGED controller

NextGames ==
  \/ \E k \in 1..Len(fn.games) : GameThrowAndSettle(k)
  \/ \E k \in 1..Len(fn.games) : \E dt \in DtMenu(Game(k)) : GameUpdate(k, dt)
  \/ \E k \in 1..Len(fn.games) : \E active \in BOOLEAN : GameSetSweeping(k, active)
  \/ \E k \in 1..Len(fn.games) : GameReset(k)
  \/ \E k \in 1..Len(fn.games) : \E how \in 1..3 : GamePoke(k, how)
  \/ Clone

SpecGames == InitGames /\ [][NextGames]_vars

\* ends simulated in one call: simulateEnd with lists of several lengths and,
\* in the first end, single shots thrown and settled between them; fn holds
\* the list, the number of shots used, the score returned and the sheet it
\* was taken from
ShotLengths == {0, 8, 18}

\* the list of n shots for the game c in which the deliveries numbered in
\* draws, of the first end, are draws and the others short pushes
EndShots(c, n, draws) ==
  [i \in 1..n |->
     IF c.currentEnd > 1 \/ (c.deliveryCount + i - 1) \notin draws THEN Short
     ELSE IF (c.deliveryCount + i - 1) % 2 = 1 THEN DrawL ELSE DrawR]

SimulateEndDone(r, shots) ==
  /\ controller' = r.game
  /\ call' = Called("simulateEnd", 0, r.status)
  /\ fn' = [name |-> "simulateEnd", shots |-> shots, used |-> r.used,
            score |-> r.score, sheet |-> r.sheet]

SimulateEnd(shots) == SimulateEndDone(simulateEnd(controller, shots), shots)

\* lists with draws are offered as the first end starts
DrawMenu(c) ==
  IF c.currentEnd = 1 /\ c.deliveryCount = 0
  THEN SUBSET (0..(MaxFreeShots - 1)) ELSE {{}}

NextEnds ==
  \/ \E n \in ShotLengths : \E draws \in DrawMenu(controller) :
       SimulateEnd(EndShots(controller, n, draws))
  \/ controller.currentEnd = 1 /\ ThrowAndSettle(Short)

SpecEnds == Init /\ [][NextEnds]_vars

\* a HeadlessGame constructed with ice parameters that give the friction and
\* spin coefficients, each at its default or another value: fn holds the
\* argument of the constructor
HeadlessGame(iceParams) ==
  [NewGameController EXCEPT !.world.ice =
     [k \in DOMAIN DEFAULT_ICE_PARAMS |->
        IF k \in DOMAIN iceParams THEN iceParams[k] ELSE @[k]]]

InitIce ==
  /\ \E iceParams \in {[mu0 |-> x, kSpin |-> y] : x \in {8000, 10000}, y \in {80, 100}} :
       /\ controller = HeadlessGame(iceParams)
       /\ fn = [name |-> "HeadlessGame", iceParams |-> iceParams]
  /\ call = NoCall

\* throwAndSettle, simulateEnd, the change to a new end through the
\* controller's update, and reset
NextIce ==
  \/ ThrowAndSettle(Short)
  \/ \E n \in ShotLengths :
       LET r == simulateEnd(controller, EndShots(controller, n, {}))
       IN  /\ controller' = r.game
           /\ call' = Called("simulateEnd", 0, r.status)
           /\ UNCHANGED fn
  \/ \E dt \in DtMenu(controller) : Update(dt)
  \/ ResetGame

SpecIce == InitIce /\ [][NextIce]_vars

\* a PhysicsWorld on its own, in mid-end: fn holds the world, the number of
\* calls made on it, and the elapsed time and the physics steps of the last
\* update
MaxWorldCalls == 3

WorldStone(x, z, vx, vz, team, index) ==
  [pos |-> [x |-> x, z |-> z], vel |-> [x |-> vx, z |-> vz], omega |-> 0,
   angle |-> 0, team |-> team, inPlay |-> TRUE, deliveryIndex |-> index]

\* the delivered stone creeping to rest about the far hog line: its centre is
\* past the line by p, at 0.002 m/s, 0.0055 m/s or 0.02 m/s; and, with no delivery in
\* progress, a stone of an earlier delivery that was knocked back and lies at
\* rest astride that line
HogWorlds ==
  {[NewPhysicsWorld EXCEPT
      !.stones = <<WorldStone(0, e * (HOG_Z + p), 0, e * v, "red", 0)>>,
      !.sweeping = sw, !.targetEnd = e, !.deliveredStoneIndex = 0] :
   e \in {-1, 1}, sw \in BOOLEAN, v \in {2000, 5500, 20000},
   p \in {-STONE_RADIUS - 1000, -STONE_RADIUS + 1000, 0,
          STONE_RADIUS - 1000, STONE_RADIUS + 1000}}
  \cup
  {[NewPhysicsWorld EXCEPT
      !.stones = <<WorldStone(0, e * (HOG_Z + p), 0, 0, "red", 0)>>,
      !.targetEnd = e] :
   e \in {-1, 1}, p \in {-STONE_RADIUS + 1000, 0, STONE_RADIUS - 1000}}

\* a stone in the house beside a side board (side = 1 or -1), its edge gap
\* short of the board, at rest or sliding at the board at 1 m/s, and the
\* delivered stone sliding at it at 1 m/s from the other side, sep short of
\* touching it (sep < 0: overlapping it)
WallWorlds ==
  {[NewPhysicsWorld EXCEPT
      !.stones = <<WorldStone(side * (HALF_WIDTH - STONE_RADIUS - gap), e * TEE_Z,
                              side * v, 0, "red", 0),
                   WorldStone(side * (HALF_WIDTH - STONE_RADIUS - gap - CONTACT_DIST - sep),
                              e * TEE_Z, side * 1000000, 0, "yellow", 1)>>,
      !.sweeping = sw, !.targetEnd = e, !.deliveredStoneIndex = 1] :
   e \in {-1, 1}, sw \in BOOLEAN, side \in {-1, 1}, v \in {0, 1000000},
   gap \in {0, 200, 5000}, sep \in {-1000, 500}}

\* elapsed times passed to PhysicsWorld.update: below, at and above one fixed
\* step, and far above the cap
InitWorld ==
  /\ controller = NewGameController
  /\ call = NoCall
  /\ \E w \in HogWorlds \cup WallWorlds :
       fn = [name |-> "world", world |-> w, calls |-> 0, elapsed |-> 0, steps |-> 0]

WorldUpdated(r, elapsed) ==
  /\ fn' = [name |-> "world", world |-> r.world, calls |-> fn.calls + 1,
            elapsed |-> elapsed, steps |-> r.steps]
  /\ call' = Called("worldUpdate", elapsed, "returned")
  /\ UNCHANGED controller

WorldUpdate(elapsed) ==
  /\ fn.calls < MaxWorldCalls
  /\ WorldUpdated(worldUpdate(fn.world, elapsed), elapsed)

\* PhysicsWorld.deliverStone of a short push by the next team
WorldDeliver ==
  /\ fn.calls < MaxWorldCalls
  /\ fn' = [fn EXCEPT !.world = deliverStone(fn.world, otherOf(fn.world.stones[Len(fn.world.stones)].team),
                                            Short, Len(fn.world.stones)),
                      !.calls = fn.calls + 1]
  /\ call' = Called("deliverStone", 0, "returned")
  /\ UNCHANGED controller

NextWorld ==
  \/ \E elapsed \in {2, PHYSICS_DT, 7, 3000} : WorldUpdate(elapsed)
  \/ WorldDeliver

SpecWorld == InitWorld /\ [][NextWorld]_vars

\* stepPhysics on its own: fn holds the stones before a step, after its
\* integration loop and after its collision resolution
MaxSteps == 2

\* stone A in the house, sliding up the sheet (+Z) at speeds and spins
\* below, at and above the settle thresholds; optionally stone B further up
\* the sheet, overlapping A by 1 cm, at exactly the contact distance or 3 mm
\* clear of it, at rest or sliding at A at 1 m/s; and optionally a third stone
\* C, either 1 mm clear of B on its far side or far off to the side
StepInputs ==
  LET A(v, om) == [WorldStone(0, TEE_Z, 0, v, "red", 0) EXCEPT !.omega = om]
      B(d, v) == WorldStone(0, TEE_Z + d, 0, v, "yellow", 1)
      C(d, far) == IF far THEN WorldStone(10 * STONE_RADIUS, TEE_Z, 0, 0, "red", 2)
                   ELSE WorldStone(0, TEE_Z + d + CONTACT_DIST + 100, 0, 0, "red", 2)
      As == {A(v, om) : v \in {0, 2000, SETTLE_VEL_THRESHOLD, 6000, 1000000},
                        om \in {0, 5000, SETTLE_OMEGA_THRESHOLD, 300000}}
      Ds == {CONTACT_DIST - 1000, CONTACT_DIST, CONTACT_DIST + 300}
  IN {<<a>> : a \in As}
     \cup {<<a, B(d, v)>> : a \in As, d \in Ds, v \in {0, -1000000}}
     \cup {<<a, B(d, v), C(d, far)>> :
              a \in As, d \in Ds, v \in {0, -1000000}, far \in BOOLEAN}

InitStep ==
  /\ controller = NewGameController
  /\ call = NoCall
  /\ \E stones \in StepInputs : \E sweeping \in BOOLEAN :
       fn = [name |-> "input", sweeping |-> sweeping, steps |-> 0,
             before |-> stones, integrated |-> stones, after |-> stones]

Step ==
  /\ fn.steps < MaxSteps
  /\ LET integrated == [i \in 1..Len(fn.after) |->
                          IntegrateStone(fn.after[i], DEFAULT_ICE_PARAMS, fn.sweeping)]
     IN  fn' = [name |-> "step", sweeping |-> fn.sweeping, steps |-> fn.steps + 1,
                before |-> fn.after, integrated |-> integrated,
                after |-> resolveCollisions(integrated)]
  /\ UNCHANGED <<controller, call>>

SpecStep == InitStep /\ [][Step]_vars

\* ------------------------------------------------------------------------
\* Properties of the real-time game (Spec)
\* ------------------------------------------------------------------------

\* C1: throwStone called in a phase other than AIMING is a no-op: no stone is
\* added, and the delivery counter, phase, hammer team, scores, end number and
\* the world's delivered-stone index keep their values.
C1_ThrowOutsideAimingIsNoOp ==
  [][(call'.op = "throwStone" /\ controller.phase # "AIMING") =>
       /\ controller'.world.stones = controller.world.stones
       /\ controller'.deliveryCount = controller.deliveryCount
       /\ controller'.phase = controller.phase
       /\ controller'.hammerTeam = controller.hammerTeam
       /\ controller'.totalScore = controller.totalScore
       /\ controller'.scoreHistory = controller.scoreHistory
       /\ controller'.currentEnd = controller.currentEnd
       /\ controller'.world.deliveredStoneIndex = controller.world.deliveredStoneIndex]_vars

C1_Witness ==
  /\ call.op = "throwStone"
  /\ call.phase = "END_SCORE"
  /\ controller.phase = "END_SCORE"
  /\ Len(controller.world.stones) = 2 * STONES_PER_TEAM

\* C2: throwStone called in AIMING appends exactly one in-play stone whose team
\* is the current team and whose deliveryIndex is the delivery counter before
\* the call, adds 1 to the delivery counter, records the stone as the
\* just-delivered stone and sets the phase to DELIVERING.
C2_ThrowInAimingDelivers ==
  [][(call'.op = "throwStone" /\ controller.phase = "AIMING") =>
       LET old == controller.world.stones
           new == controller'.world.stones
       IN /\ Len(new) = Len(old) + 1
          /\ SubSeq(new, 1, Len(old)) = old
          /\ new[Len(new)].inPlay
          /\ new[Len(new)].team = currentTeam(controller)
          /\ new[Len(new)].deliveryIndex = controller.deliveryCount
          /\ controller'.deliveryCount = controller.deliveryCount + 1
          /\ controller'.world.deliveredStoneIndex = Len(new) - 1
          /\ controller'.phase = "DELIVERING"]_vars

C2_Witness ==
  /\ call.op = "throwStone"
  /\ call.phase = "AIMING"
  /\ controller.phase = "DELIVERING"
  /\ controller.deliveryCount = 2 * STONES_PER_TEAM
  /\ controller.world.deliveredStoneIndex = 2 * STONES_PER_TEAM - 1

\* C3: within an end the k-th delivery (k = 0..15) is made by the non-hammer
\* team when k is even and by the hammer team when k is odd; teams alternate
\* strictly and each team delivers exactly 8 stones per end.
C3_TeamsAlternate ==
  LET st == controller.world.stones
  IN /\ \A i \in 1..Len(st) : st[i].deliveryIndex = i - 1
     /\ \A i \in 1..(Len(st) - 1) : st[i].team # st[i + 1].team
     /\ controller.phase \in {"AIMING", "DELIVERING", "SETTLING"} =>
          \A i \in 1..Len(st) :
             st[i].team = IF (i - 1) % 2 = 0
                          THEN (IF controller.hammerTeam = "red" THEN "yellow" ELSE "red")
                          ELSE controller.hammerTeam
     /\ Len(st) = 16 =>
          /\ Cardinality({i \in 1..16 : st[i].team = "red"}) = 8
          /\ Cardinality({i \in 1..16 : st[i].team = "yellow"}) = 8
     /\ Len(st) <= 16

C3_Witness ==
  /\ controller.phase = "DELIVERING"
  /\ controller.currentEnd = 2
  /\ controller.hammerTeam = "red"
  /\ Len(controller.world.stones) = 16
  /\ controller.world.stones[16].team = "red"
  /\ controller.world.stones[1].team = "yellow"


\* C4: while the phase is DELIVERING an update tick keeps it DELIVERING as long
\* as an in-play stone still moves; on the tick at which no stone moves and
\* fewer than 16 stones have been delivered the phase returns to AIMING with
\* totals, score history, hammer team and end number unchanged.
C4_DeliveringUntilStopped ==
  [][(call'.op = "update" /\ controller.phase = "DELIVERING") =>
       LET st == controller'.world.stones
           moving == \E i \in 1..Len(st) :
                        /\ st[i].inPlay
                        /\ \/ Abs(st[i].vel.x) > 1000
                           \/ Abs(st[i].vel.z) > 1000
                           \/ Abs(st[i].omega) > 10000
       IN /\ moving => controller'.phase = "DELIVERING"
          /\ (~moving /\ controller.deliveryCount < 16) =>
               /\ controller'.phase = "AIMING"
               /\ controller'.totalScore = controller.totalScore
               /\ controller'.scoreHistory = controller.scoreHistory
               /\ controller'.hammerTeam = controller.hammerTeam
               /\ controller'.currentEnd = controller.currentEnd]_vars

C4_Witness ==
  /\ call.op = "update"
  /\ call.phase = "DELIVERING"
  /\ controller.phase = "AIMING"
  /\ controller.deliveryCount = 14
  /\ controller.world.stones[14].inPlay
  /\ controller.world.stones[14].pos.z < -HOG_Z

\* C5: an end is scored exactly once, on the update tick at which all motion
\* has ceased after the 16th delivery: the result of the end is appended to the
\* score history and added to the totals, and the phase becomes GAME_OVER in the
\* last end and END_SCORE otherwise; with fewer than 16 stones delivered, and on
\* every other call, the history and the totals do not grow.
C5_EndScoredOnce ==
  [][LET st == controller'.world.stones
         moving == \E i \in 1..Len(st) :
                      /\ st[i].inPlay
                      /\ \/ Abs(st[i].vel.x) > 1000
                         \/ Abs(st[i].vel.z) > 1000
                         \/ Abs(st[i].omega) > 10000
         scoringTick == /\ call'.op = "update"
                        /\ controller.phase = "DELIVERING"
                        /\ controller.deliveryCount = 16
                        /\ ~moving
         result == scoreEnd(st, controller'.world.targetEnd)
     IN /\ scoringTick =>
             /\ controller'.scoreHistory =
                  Append(controller.scoreHistory,
                         [red |-> result.red, yellow |-> result.yellow])
             /\ controller'.totalScore.red = controller.totalScore.red + result.red
             /\ controller'.totalScore.yellow = controller.totalScore.yellow + result.yellow
             /\ controller'.phase = IF controller.currentEnd >= ENDS_PER_GAME
                                    THEN "GAME_OVER" ELSE "END_SCORE"
        /\ (~scoringTick /\ call'.op # "resetGame") =>
             /\ controller'.scoreHistory = controller.scoreHistory
             /\ controller'.totalScore = controller.totalScore
        /\ Len(controller'.scoreHistory) =
             IF controller'.phase \in {"END_SCORE", "GAME_OVER"}
             THEN controller'.currentEnd ELSE controller'.currentEnd - 1]_vars

C5_Witness ==
  /\ call.op = "update"
  /\ call.phase = "DELIVERING"
  /\ controller.phase = "GAME_OVER"
  /\ Len(controller.scoreHistory) = 2
  /\ controller.scoreHistory[1].yellow = 1
  /\ controller.scoreHistory[2].red = 1
  /\ controller.totalScore = [red |-> 1, yellow |-> 1]

\* C6: when an end is scored, the hammer for the next end belongs to the team
\* that did not score in it; if the end is recorded 0-0 the hammer stays with
\* the team that held it.
C6_HammerToNonScorer ==
  [][Len(controller'.scoreHistory) = Len(controller.scoreHistory) + 1 =>
       LET e == controller'.scoreHistory[Len(controller'.scoreHistory)]
       IN /\ e.red > 0 => controller'.hammerTeam = "yellow"
          /\ e.yellow > 0 => controller'.hammerTeam = "red"
          /\ (e.red = 0 /\ e.yellow = 0) =>
               controller'.hammerTeam = controller.hammerTeam]_vars

\* C8: GAME_OVER is terminal: update ticks and delivery attempts leave the
\* phase, totals, score history, end number, hammer team and stone list
\* unchanged; resetGame, from any state, restores end 1, delivery counter 0,
\* totals 0-0, an empty history, the initial hammer holder, a fresh empty world
\* and phase AIMING.
C8_GameOverTerminal ==
  [][/\ (controller.phase = "GAME_OVER" /\ call'.op # "resetGame") =>
          /\ controller'.phase = "GAME_OVER"
          /\ controller'.totalScore = controller.totalScore
          /\ controller'.scoreHistory = controller.scoreHistory
          /\ controller'.currentEnd = controller.currentEnd
          /\ controller'.hammerTeam = controller.hammerTeam
          /\ controller'.world.stones = controller.world.stones
     /\ call'.op = "resetGame" =>
          /\ controller'.currentEnd = 1
          /\ controller'.deliveryCount = 0
          /\ controller'.totalScore = [red |-> 0, yellow |-> 0]
          /\ controller'.scoreHistory = <<>>
          /\ controller'.hammerTeam = "yellow"
          /\ controller'.world = [stones |-> <<>>, ice |-> DEFAULT_ICE_PARAMS,
                                  sweeping |-> FALSE, targetEnd |-> -1,
                                  deliveredStoneIndex |-> -1, accumulator |-> 0]
          /\ controller'.phase = "AIMING"]_vars

C8_Witness ==
  /\ call.op = "resetGame"
  /\ call.phase = "GAME_OVER"
  /\ controller.phase = "AIMING"
  /\ controller.currentEnd = 1
  /\ controller.scoreHistory = <<>>
  /\ controller.world.stones = <<>>

\* ------------------------------------------------------------------------
\* Properties of scoreEnd (SpecScore)
\* ------------------------------------------------------------------------

\* C9: scoreEnd returns 0-0 with no winner when no stone is in play; otherwise
\* the winner owns an in-play stone nearest the tee of the target end, its
\* points are the number of its in-play stones strictly nearer than every
\* in-play stone of the other team, the other team gets 0, and stones out of
\* play do not influence the result.
C9_ScoreEndCorrect ==
  fn.name = "scoreEnd" =>
    LET st == fn.stones
        r == fn.result
        P == {i \in 1..Len(st) : st[i].inPlay}
        d(i) == st[i].pos.x * st[i].pos.x
                + (st[i].pos.z - fn.targetEnd * TEE_Z) * (st[i].pos.z - fn.targetEnd * TEE_Z)
        points(team) ==
          Cardinality({i \in P : /\ st[i].team = team
                                 /\ \A j \in P : st[j].team # team => d(i) < d(j)})
    IN /\ P = {} => r = [red |-> 0, yellow |-> 0, winner |-> "none"]
       /\ P # {} =>
            /\ r.winner \in Team
            /\ \E i \in P : st[i].team = r.winner /\ \A j \in P : d(i) <= d(j)
            /\ r.red = IF r.winner = "red" THEN points("red") ELSE 0
            /\ r.yellow = IF r.winner = "yellow" THEN points("yellow") ELSE 0
       /\ r = scoreEnd(SelectSeq(st, LAMBDA s : s.inPlay), fn.targetEnd)

C9_Witness ==
  /\ fn.name = "scoreEnd"
  /\ Len(fn.stones) = 3
  /\ fn.result = [red |-> 2, yellow |-> 0, winner |-> "red"]
  /\ fn.stones[2].team = "yellow"
  /\ ~fn.stones[2].inPlay

\* ------------------------------------------------------------------------
\* Properties of the headless driver (SpecHeadless)
\* ------------------------------------------------------------------------

\* C7: END_SCORE lasts until the elapsed time passed to update since the end
\* was scored reaches the display duration of 3.0 s; on that tick, and on no
\* earlier one, the end number grows by 1, the delivery counter becomes 0, the
\* stone list is emptied, the target end flips and the phase becomes AIMING.
\* call is the call that led to the current state, so call.phase # "END_SCORE"
\* in END_SCORE says that the end has just been scored.
C7_EndScoreLastsDisplayDuration ==
  [][controller.phase = "END_SCORE" =>
       /\ call'.op \notin {"update", "resetGame"} => controller'.phase = "END_SCORE"
       /\ (call'.op = "update" /\ controller'.phase # "END_SCORE") =>
            /\ controller'.currentEnd = controller.currentEnd + 1
            /\ controller'.deliveryCount = 0
            /\ controller'.world.stones = <<>>
            /\ controller'.world.targetEnd = -controller.world.targetEnd
            /\ controller'.phase = "AIMING"
       /\ (call'.op = "update" /\ controller'.phase = "END_SCORE") =>
            /\ controller'.currentEnd = controller.currentEnd
            /\ controller'.deliveryCount = controller.deliveryCount
            /\ controller'.world.stones = controller.world.stones
            /\ controller'.world.targetEnd = controller.world.targetEnd
       /\ (call'.op = "update" /\ call.phase # "END_SCORE") =>
            (controller'.phase = "AIMING" <=> call'.dt >= 1800)
       /\ (call'.op = "update" /\ call.op = "update" /\ call.phase = "END_SCORE"
             /\ call.dt + call'.dt >= 1800) =>
            controller'.phase = "AIMING"]_vars

\* C10: throwAndSettle called when the phase is not AIMING throws instead of
\* returning a result and leaves the game unchanged: no stone is added and the
\* delivery counter, phase, scores and hammer keep their values.
C10_HeadlessThrowOutsideAimingThrows ==
  [][(call'.op = "throwAndSettle" /\ controller.phase # "AIMING") =>
       /\ call'.status = "threw"
       /\ controller'.world.stones = controller.world.stones
       /\ controller'.deliveryCount = controller.deliveryCount
       /\ controller'.phase = controller.phase
       /\ controller'.totalScore = controller.totalScore
       /\ controller'.scoreHistory = controller.scoreHistory
       /\ controller'.hammerTeam = controller.hammerTeam]_vars

C10_Witness ==
  /\ call.op = "throwAndSettle"
  /\ call.status = "threw"
  /\ call.phase = "DELIVERING"
  /\ controller.phase = "DELIVERING"
  /\ Len(controller.world.stones) = 1

\* ------------------------------------------------------------------------
\* Properties of the headless driver beside the frame loop (SpecBoth)
\* ------------------------------------------------------------------------

\* C11: from the same game and the same shot, throwAndSettle ends with the
\* same phase, delivery counter, score history, totals, hammer team, end number
\* and in-play flag of every stone as throwStone followed by update ticks
\* until the phase leaves DELIVERING.
C11_SettleMatchesFrames ==
  (call.op = "throwAndSettle" /\ fn.name = "frames") =>
     /\ controller.phase = fn.game.phase
     /\ controller.deliveryCount = fn.game.deliveryCount
     /\ controller.scoreHistory = fn.game.scoreHistory
     /\ controller.totalScore = fn.game.totalScore
     /\ controller.hammerTeam = fn.game.hammerTeam
     /\ controller.currentEnd = fn.game.currentEnd
     /\ Len(controller.world.stones) = Len(fn.game.world.stones)
     /\ \A i \in 1..Len(controller.world.stones) :
          controller.world.stones[i].inPlay = fn.game.world.stones[i].inPlay

C11_Witness ==
  /\ call.op = "throwAndSettle"
  /\ fn.name = "frames"
  /\ fn.dt = 7
  /\ controller.phase = "END_SCORE"
  /\ fn.game.phase = "END_SCORE"
  /\ controller.scoreHistory = <<[red |-> 1, yellow |-> 0]>>
  /\ controller.hammerTeam = "yellow"
  /\ controller.world.stones[1].inPlay
  /\ ~controller.world.stones[16].inPlay

\* ------------------------------------------------------------------------
\* Properties of clone (SpecGames)
\* ------------------------------------------------------------------------

\* C12: after clone the original and the clone share no mutable storage: no
\* object is reached from both, and a call on either of them (a delivery, an
\* update, a change of the stone list or of a stone, a sweeping change, a
\* reset) leaves every value of the other as it was.
C12_CloneIndependent ==
  [][(Len(fn'.games) = 2) =>
       LET h == fn'.store
           worldOf(k) == fn'.games[k].world
           listOf(k) == h.world[worldOf(k)].stones
           stonesOf(k) == {h.list[listOf(k)][i] : i \in 1..Len(h.list[listOf(k)])}
           vecsOf(k) == UNION {{h.stone[r].pos, h.stone[r].vel} : r \in stonesOf(k)}
           historyOf(k) == fn'.games[k].scoreHistory
           scoresOf(k) == {fn'.games[k].totalScore}
                            \cup {h.history[historyOf(k)][i] : i \in 1..Len(h.history[historyOf(k)])}
       IN /\ worldOf(1) # worldOf(2)
          /\ listOf(1) # listOf(2)
          /\ h.world[worldOf(1)].ice # h.world[worldOf(2)].ice
          /\ historyOf(1) # historyOf(2)
          /\ stonesOf(1) \cap stonesOf(2) = {}
          /\ vecsOf(1) \cap vecsOf(2) = {}
          /\ scoresOf(1) \cap scoresOf(2) = {}
          /\ \A k \in 1..2 :
               (call'.op # "clone" /\ call'.on # k) =>
                  gameAt(fn'.store, fn'.games[k]) = gameAt(fn.store, fn.games[k])]_vars

C12_Witness ==
  /\ Len(fn.games) = 2
  /\ call.op = "throwAndSettle"
  /\ call.on = 1
  /\ fn.trail = <<<<[op |-> "poke", arg |-> 1], [op |-> "throwAndSettle", arg |-> 0]>>, <<>>>>
  /\ Len(Game(1).world.stones) = 3
  /\ Len(Game(2).world.stones) = 2
  /\ Game(1).world.stones[2].pos.x = Game(2).world.stones[2].pos.x + 1000

\* C13: a clone has the stone list and every scalar of the original (phase,
\* end number, delivery counter, hammer team, totals, score history, ice
\* parameters, sweeping flag, target end, delivered-stone index, accumulator
\* and score-display timer), and the same calls made on both leave both in the
\* same state after every call.
C13_CloneIdentical ==
  (Len(fn.games) = 2 /\ fn.trail[1] = fn.trail[2]) => Game(1) = Game(2)

\* ------------------------------------------------------------------------
\* Properties of simulateEnd (SpecEnds)
\* ------------------------------------------------------------------------

\* C14: simulateEnd delivers the given shots in order, at most 16 of them,
\* and stops as soon as the end completes, leaving later shots unused; when
\* the end completes with more ends remaining it returns that end's score,
\* equal to the entry recorded in the score history for the end, and leaves
\* the game at the start of the next end: end number +1, delivery counter 0,
\* empty stone list, target end flipped, phase AIMING.
C14_SimulateEnd ==
  [][(call'.op = "simulateEnd" /\ call'.status = "returned"
        /\ (controller.phase = "AIMING" \/ fn'.shots = <<>>)) =>
       LET old == controller.world.stones
           k == controller.deliveryCount
           used == fn'.used
           completes == IF controller.phase = "AIMING"
                        THEN k + used = 16 /\ used > 0
                        ELSE controller.phase = "END_SCORE"
       IN /\ used <= 16
          /\ used = IF controller.phase = "AIMING"
                    THEN Min(Len(fn'.shots), 16 - k) ELSE 0
          /\ Len(fn'.sheet) = Len(old) + used
          /\ SubSeq(fn'.sheet, 1, Len(old)) = old
          /\ \A i \in 1..used :
               /\ fn'.sheet[Len(old) + i].deliveryIndex = k + i - 1
               /\ fn'.sheet[Len(old) + i].inPlay = (fn'.shots[i] # Short)
               /\ fn'.shots[i] = DrawL => fn'.sheet[Len(old) + i].pos.x > 0
               /\ fn'.shots[i] = DrawR => fn'.sheet[Len(old) + i].pos.x < 0
          /\ (completes /\ controller.currentEnd < HEADLESS_ENDS_PER_GAME) =>
               /\ Len(controller'.scoreHistory) = controller.currentEnd
               /\ fn'.score.red = controller'.scoreHistory[controller.currentEnd].red
               /\ fn'.score.yellow = controller'.scoreHistory[controller.currentEnd].yellow
               /\ controller'.currentEnd = controller.currentEnd + 1
               /\ controller'.deliveryCount = 0
               /\ controller'.world.stones = <<>>
               /\ controller'.world.targetEnd = -controller.world.targetEnd
               /\ controller'.phase = "AIMING"
          /\ ~completes =>
               /\ controller'.world.stones = fn'.sheet
               /\ controller'.currentEnd = controller.currentEnd
               /\ controller'.deliveryCount = k + used
               /\ controller'.phase = controller.phase]_vars

C14_Witness ==
  /\ call.op = "simulateEnd"
  /\ call.status = "returned"
  /\ Len(fn.shots) = 18
  /\ fn.used = 8
  /\ Len(fn.sheet) = 16
  /\ fn.sheet[2].inPlay
  /\ fn.score = [red |-> 0, yellow |-> 1, winner |-> "yellow"]
  /\ controller.scoreHistory = <<[red |-> 0, yellow |-> 1]>>
  /\ controller.currentEnd = 2
  /\ controller.phase = "AIMING"
  /\ controller.world.stones = <<>>
  /\ controller.world.targetEnd = 1

\* ------------------------------------------------------------------------
\* Properties of the physics world (SpecWorld)
\* ------------------------------------------------------------------------

\* C15: inPlay never changes from false to true: through deliveries, update
\* ticks, collisions and rule checks a stone that has been marked out of play
\* stays out of play while it is in the stone list.
C15_OutOfPlayStaysOut ==
  [][\A i \in 1..Len(fn.world.stones) :
       /\ i <= Len(fn'.world.stones)
       /\ ~fn.world.stones[i].inPlay => ~fn'.world.stones[i].inPlay]_vars

C15_Witness ==
  /\ fn.calls = 3
  /\ call.op = "worldUpdate"
  /\ Len(fn.world.stones) = 3
  /\ ~fn.world.stones[1].inPlay
  /\ fn.world.stones[2].inPlay
  /\ fn.world.stones[3].inPlay
  /\ Abs(fn.world.stones[1].pos.x) + STONE_RADIUS > HALF_WIDTH
  /\ fn.world.stones[1].vel.x # 0

\* C16: a stone whose edge crosses a side boundary of the sheet (|x| plus the
\* stone radius exceeds half the sheet width), also when the positional
\* correction of a collision pushes it across, is marked out of play in the
\* same physics step: after every step no in-play stone overlaps a side
\* boundary.
C16_NoInPlayStoneOverBoard ==
  \A i \in 1..Len(fn.world.stones) :
     fn.world.stones[i].inPlay =>
       Abs(fn.world.stones[i].pos.x) + STONE_RADIUS <= HALF_WIDTH

\* a stone at rest at the right-hand board is struck by the delivered
\* stone: the positional correction of that step alone carries its edge
\* across the board (it has moved less than one step at its new speed)
C16_Witness ==
  /\ fn.calls = 1
  /\ fn.steps = 1
  /\ Len(fn.world.stones) = 2
  /\ ~fn.world.stones[1].inPlay
  /\ fn.world.stones[2].inPlay
  /\ fn.world.stones[1].vel.x > 0
  /\ fn.world.stones[1].pos.x + STONE_RADIUS > HALF_WIDTH
  /\ fn.world.stones[1].pos.x + STONE_RADIUS < HALF_WIDTH + 500

\* the delivered stone of an update in which motion ceased, where that stone
\* was in play before the call and lies within the boards and short of the
\* back line after it
DeliveredCameToRest ==
  /\ call'.op = "worldUpdate"
  /\ fn.world.deliveredStoneIndex >= 0
  /\ fn'.world.deliveredStoneIndex = -1
  /\ fn.world.stones[fn.world.deliveredStoneIndex + 1].inPlay
  /\ Abs(fn'.world.stones[fn.world.deliveredStoneIndex + 1].pos.x) + STONE_RADIUS <= HALF_WIDTH
  /\ fn.world.targetEnd * fn'.world.stones[fn.world.deliveredStoneIndex + 1].pos.z
       <= BACK_LINE_Z + STONE_RADIUS

\* C17 as stated: when the just-delivered stone has come to rest it stays in
\* play if its leading edge (the edge nearest the target house) has crossed
\* the far hog line and is marked out of play if it has not, for both target
\* ends.
C17_LeadingEdgeDecides ==
  [][DeliveredCameToRest =>
       (fn'.world.stones[fn.world.deliveredStoneIndex + 1].inPlay
          <=> fn.world.targetEnd * fn'.world.stones[fn.world.deliveredStoneIndex + 1].pos.z
                + STONE_RADIUS > HOG_Z)]_vars

\* C17 amended: when the just-delivered stone has come to rest it stays in
\* play if the whole stone has crossed the far hog line (its trailing edge,
\* the edge farthest from the target house, is on or past the line) and is
\* marked out of play otherwise, for both target ends.
C17_TrailingEdgeDecides ==
  [][DeliveredCameToRest =>
       (fn'.world.stones[fn.world.deliveredStoneIndex + 1].inPlay
          <=> fn.world.targetEnd * fn'.world.stones[fn.world.deliveredStoneIndex + 1].pos.z
                - STONE_RADIUS >= HOG_Z)]_vars

\* a delivered stone at rest astride the far hog line of the end at +Z, its
\* leading edge past the line and its trailing edge short of it: out of play
C17_Witness ==
  /\ call.op = "worldUpdate"
  /\ Len(fn.world.stones) = 1
  /\ fn.world.targetEnd = 1
  /\ fn.world.deliveredStoneIndex = -1
  /\ fn.world.stones[1].vel = [x |-> 0, z |-> 0]
  /\ fn.world.stones[1].pos.z + STONE_RADIUS > HOG_Z
  /\ fn.world.stones[1].pos.z - STONE_RADIUS < HOG_Z
  /\ ~fn.world.stones[1].inPlay

\* C18: while sweeping is on, the reduced friction and the reduced curl apply
\* to the currently delivered stone only: in a physics step every other stone
\* is integrated with the unswept ice parameters.  Stated for updates of one
\* step: the stones other than the delivered one end the step where a step
\* that sweeps the delivered stone alone leaves them.
C18_OnlyDeliveredStoneSwept ==
  [][(call'.op = "worldUpdate" /\ fn'.steps = 1) =>
       \A i \in 1..Len(fn.world.stones) :
          i # fn.world.deliveredStoneIndex + 1 =>
            fn'.world.stones[i] =
              applyRules(resolveCollisions(
                           [j \in 1..Len(fn.world.stones) |->
                              IntegrateStone(fn.world.stones[j], fn.world.ice,
                                             fn.world.sweeping
                                               /\ j = fn.world.deliveredStoneIndex + 1)]),
                         fn.world.deliveredStoneIndex, fn.world.targetEnd)[i]]_vars

\* C19: a match consists of 10 ends: the phase is GAME_OVER when, and only
\* when, the 10th end has been scored, and each of the first nine ends, once
\* scored, is in END_SCORE until the next end begins.
C19_TenEndMatch ==
  /\ controller.phase = "GAME_OVER" <=> Len(controller.scoreHistory) = 10
  /\ (Len(controller.scoreHistory) = controller.currentEnd /\ controller.currentEnd <= 9)
       => controller.phase = "END_SCORE"

\* C20: PhysicsWorld.update caps the accumulator at 0.2 s, so one call runs at
\* most 24 fixed steps of 1/120 s however large the elapsed time; the steps
\* run use up the capped accumulator, and the leftover, non-negative and
\* smaller than one fixed step, is what the next call starts from.
C20_AccumulatorCapped ==
  [][call'.op = "worldUpdate" =>
       /\ fn'.steps <= 24
       /\ fn'.world.accumulator >= 0
       /\ fn'.world.accumulator < PHYSICS_DT
       /\ fn'.steps * PHYSICS_DT + fn'.world.accumulator
            = Min(fn.world.accumulator + fn'.elapsed, ACCUMULATOR_CAP)]_vars

\* an update with 5 s of elapsed time on top of a carried remainder: 24 steps
C20_Witness ==
  /\ call.op = "worldUpdate"
  /\ fn.calls >= 2
  /\ fn.elapsed = 3000
  /\ fn.steps = 24
  /\ fn.world.accumulator = 0

\* no in-play stone of world w is moving: a further integration step leaves
\* every in-play stone where it lies, at the angle it has
Still(w) ==
  \A j \in 1..Len(w.stones) :
     w.stones[j].inPlay =>
       /\ IntegrateStone(w.stones[j], w.ice, w.sweeping).pos = w.stones[j].pos
       /\ IntegrateStone(w.stones[j], w.ice, w.sweeping).angle = w.stones[j].angle

\* C21: the hog-line check is applied only to the just-delivered stone, only
\* on an update at which no in-play stone is moving, and once per delivery: a
\* stone that leaves play while lying on the sheet is the delivered stone, and
\* it and all other stones have then stopped moving; an update that ends with
\* the stones at rest clears the delivered-stone index to -1, any other update
\* keeps it, and with the index at -1 no stone on the sheet leaves play.
C21_HogCheckOnceOnDelivered ==
  [][call'.op = "worldUpdate" =>
       /\ \A i \in 1..Len(fn.world.stones) :
             (/\ fn.world.stones[i].inPlay /\ ~fn'.world.stones[i].inPlay
              /\ Abs(fn'.world.stones[i].pos.x) + STONE_RADIUS <= HALF_WIDTH
              /\ fn.world.targetEnd * fn'.world.stones[i].pos.z
                   <= BACK_LINE_Z + STONE_RADIUS)
               => /\ i = fn.world.deliveredStoneIndex + 1
                  /\ Still([fn'.world EXCEPT !.stones[i].inPlay = TRUE])
       /\ fn'.world.deliveredStoneIndex =
            IF isSimulating(fn'.world) THEN fn.world.deliveredStoneIndex ELSE -1]_vars

\* a stone of an earlier delivery lies at rest astride the far hog line and is
\* in play, after the stone delivered next has stopped short of the line and
\* has been removed
C21_Witness ==
  /\ call.op = "worldUpdate"
  /\ Len(fn.world.stones) = 2
  /\ fn.world.deliveredStoneIndex = -1
  /\ fn.world.stones[1].inPlay
  /\ fn.world.stones[1].pos.z = fn.world.targetEnd * HOG_Z
  /\ ~fn.world.stones[2].inPlay
  /\ fn.world.targetEnd * fn.world.stones[2].pos.z < HOG_Z - STONE_RADIUS

\* C22: whenever the phase is AIMING no in-play stone is moving and no stone
\* is tracked as just delivered (the delivered-stone index is -1); at every
\* moment at most one stone is tracked as just delivered: the index is -1 or
\* names the last stone of the list.
C22_AimingAtRest ==
  /\ controller.phase = "AIMING" =>
       /\ Still(controller.world)
       /\ controller.world.deliveredStoneIndex = -1
  /\ controller.world.deliveredStoneIndex \in {-1, Len(controller.world.stones) - 1}

\* aiming the fifteenth stone of the end with the fourteenth, a draw, lying at
\* rest in play
C22_Witness ==
  /\ controller.phase = "AIMING"
  /\ call.op = "update"
  /\ controller.deliveryCount = 14
  /\ controller.world.stones[14].inPlay
  /\ controller.world.stones[14].angle # 0
  /\ controller.world.targetEnd * controller.world.stones[14].pos.z > HOG_Z

\* C23: under the controller's and the headless game's operations the number
\* of stones in the world equals the delivery counter, the counter stays
\* within 0..16, the stone at list position i (from 0) has deliveryIndex i,
\* and the list only grows by one stone at its end or is emptied whole, by the
\* change to a new end or a game reset.
C23_StonesAreDeliveries ==
  /\ [](/\ Len(controller.world.stones) = controller.deliveryCount
        /\ controller.deliveryCount \in 0..(2 * STONES_PER_TEAM)
        /\ \A i \in 1..Len(controller.world.stones) :
              controller.world.stones[i].deliveryIndex = i - 1)
  /\ [][IF Len(controller'.world.stones) < Len(controller.world.stones)
        THEN /\ controller'.world.stones = <<>>
             /\ \/ call'.op = "resetGame"
                \/ controller'.currentEnd = controller.currentEnd + 1
        ELSE /\ Len(controller'.world.stones) <= Len(controller.world.stones) + 1
             /\ \A i \in 1..Len(controller.world.stones) :
                   /\ controller'.world.stones[i].team = controller.world.stones[i].team
                   /\ controller'.world.stones[i].deliveryIndex
                        = controller.world.stones[i].deliveryIndex]_vars

\* the second stone of the second end has been delivered: the sixteen stones
\* of the first end are gone
C23_Witness ==
  /\ controller.currentEnd = 2
  /\ controller.deliveryCount = 2
  /\ Len(controller.world.stones) = 2
  /\ controller.world.stones[2].deliveryIndex = 1

\* the points of a team over the entries i.. of a score history
RECURSIVE SumOf(_, _, _)
SumOf(history, team, i) ==
  IF i > Len(history) THEN 0 ELSE history[i][team] + SumOf(history, team, i + 1)

\* C24: in every reachable state the running total of each team is the sum of
\* its entries in the score history; the history has one entry per scored end
\* (end number - 1 entries while an end is played, end number entries in
\* END_SCORE and GAME_OVER); and in every entry at most one team has points.
C24_TotalsMatchHistory ==
  /\ \A t \in Team : controller.totalScore[t] = SumOf(controller.scoreHistory, t, 1)
  /\ Len(controller.scoreHistory) =
       IF controller.phase \in {"END_SCORE", "GAME_OVER"}
       THEN controller.currentEnd ELSE controller.currentEnd - 1
  /\ \A i \in 1..Len(controller.scoreHistory) :
        controller.scoreHistory[i].red = 0 \/ controller.scoreHistory[i].yellow = 0

\* the game is over with points scored in both ends
C24_Witness ==
  /\ controller.phase = "GAME_OVER"
  /\ Len(controller.scoreHistory) = 2
  /\ controller.scoreHistory[1].red + controller.scoreHistory[1].yellow > 0
  /\ controller.scoreHistory[2].red + controller.scoreHistory[2].yellow > 0

\* C25: scoreEnd names a winner only when that team scores: a result whose
\* winner is red or yellow gives that team at least 1 point, and a 0-0 result
\* has no winner, also when the nearest in-play stones of the two teams are
\* at the same distance from the house centre.
C25_WinnerHasPoints ==
  fn.name = "scoreEnd" =>
    /\ fn.result.winner \in Team => fn.result[fn.result.winner] >= 1
    /\ (fn.result.red = 0 /\ fn.result.yellow = 0) => fn.result.winner = "none"

\* stones i and j of the list are in play and touch: their centre distance is
\* less than the sum of their radii
Touching(stones, i, j) ==
  /\ stones[i].inPlay /\ stones[j].inPlay
  /\ Abs(stones[j].pos.x - stones[i].pos.x) < CONTACT_DIST
  /\ Abs(stones[j].pos.z - stones[i].pos.z) < CONTACT_DIST
  /\ (stones[j].pos.x - stones[i].pos.x) * (stones[j].pos.x - stones[i].pos.x)
     + (stones[j].pos.z - stones[i].pos.z) * (stones[j].pos.z - stones[i].pos.z)
       < CONTACT_DIST * CONTACT_DIST

\* C26 as stated: every in-play stone whose speed is below 0.003 m/s and whose
\* |spin| is below 0.01 rad/s at the start of a physics step has velocity and
\* spin exactly zero after that full step, integration followed by collision
\* resolution (and so after a further step).
C26_SlowStoneZeroAfterStep ==
  fn.name = "step" =>
    \A i \in 1..Len(fn.before) :
       (/\ fn.before[i].inPlay
        /\ vecLen(fn.before[i].vel.x, fn.before[i].vel.z) < SETTLE_VEL_THRESHOLD
        /\ Abs(fn.before[i].omega) < SETTLE_OMEGA_THRESHOLD)
         => fn.after[i].vel = [x |-> 0, z |-> 0] /\ fn.after[i].omega = 0

\* C26 amended: such a stone has velocity and spin exactly zero after the
\* integration of the step, and after the full step when no two in-play stones
\* touch at its collision resolution; a further step of that kind leaves them
\* zero.
C26_SlowStoneZeroUnlessStruck ==
  fn.name = "step" =>
    \A i \in 1..Len(fn.before) :
       (/\ fn.before[i].inPlay
        /\ vecLen(fn.before[i].vel.x, fn.before[i].vel.z) < SETTLE_VEL_THRESHOLD
        /\ Abs(fn.before[i].omega) < SETTLE_OMEGA_THRESHOLD)
         => /\ fn.integrated[i].vel = [x |-> 0, z |-> 0] /\ fn.integrated[i].omega = 0
            /\ (\A j, k \in 1..Len(fn.before) : j # k => ~Touching(fn.integrated, j, k))
                 => fn.after[i].vel = [x |-> 0, z |-> 0] /\ fn.after[i].omega = 0

\* a stone creeping at 0.002 m/s with a spin of 0.005 rad/s, another stone
\* 3 mm clear of it: at rest after the step
C26_Witness ==
  /\ fn.name = "step"
  /\ fn.steps = 1
  /\ Len(fn.before) = 2
  /\ fn.before[1].vel.z = 2000
  /\ fn.before[1].omega = 5000
  /\ fn.before[2].pos.z = TEE_Z + CONTACT_DIST + 300
  /\ fn.after[1].vel = [x |-> 0, z |-> 0]
  /\ fn.after[1].omega = 0

\* C27 as stated: collision resolution leaves the velocities of any two
\* in-play stones that are not touching (centre distance at least the sum of
\* their radii) unchanged.
C27_PairApartKeepsVelocities ==
  fn.name = "step" =>
    \A i, j \in 1..Len(fn.integrated) :
       (/\ i # j
        /\ fn.integrated[i].inPlay /\ fn.integrated[j].inPlay
        /\ ~Touching(fn.integrated, i, j))
         => /\ fn.after[i].vel = fn.integrated[i].vel
            /\ fn.after[j].vel = fn.integrated[j].vel

\* C27 amended: when no two in-play stones are touching, collision resolution
\* leaves the velocity, the spin and the position of every stone unchanged.
C27_NoContactNoChange ==
  fn.name = "step" =>
    ((\A i, j \in 1..Len(fn.integrated) : i # j => ~Touching(fn.integrated, i, j))
       => \A i \in 1..Len(fn.integrated) :
            /\ fn.after[i].vel = fn.integrated[i].vel
            /\ fn.after[i].omega = fn.integrated[i].omega
            /\ fn.after[i].pos = fn.integrated[i].pos)

\* three stones, none touching another, the first sliding at the second,
\* which is less than 3 mm away
C27_Witness ==
  /\ fn.name = "step"
  /\ Len(fn.integrated) = 3
  /\ fn.integrated[1].vel.z > 0
  /\ fn.integrated[2].pos.z - fn.integrated[1].pos.z < CONTACT_DIST + 300
  /\ \A i, j \in 1..3 : i # j => ~Touching(fn.integrated, i, j)
  /\ fn.after[1].vel = fn.integrated[1].vel

\* C28: in one integration step friction never reverses a stone's direction
\* of travel: for every in-play stone, whatever its speed and spin, the
\* velocity after the integration has a non-negative dot product with the
\* velocity before it.
C28_FrictionNeverReverses ==
  fn.name = "step" =>
    \A i \in 1..Len(fn.before) :
       fn.before[i].inPlay =>
         DotSign(fn.before[i].vel.x, fn.before[i].vel.z,
                 fn.integrated[i].vel.x, fn.integrated[i].vel.z) >= 0

C30_IceParamsStay ==
  \A k \in DOMAIN fn.iceParams : controller.world.ice[k] = fn.iceParams[k]

=============================================================================
